---- MODULE Spec2Model ----
(***************************************************************************)
(* A model of the Telegram/Todoist assistant (src/bot.py, src/llm.py,      *)
(* src/todoist_client.py): the per-user conversation state machine with    *)
(* its inactivity timer, the Oracle fall-through of refine/validate, the   *)
(* active-task cache, the entity resolver and the confirm ("apply") pass.  *)
(*                                                                         *)
(* Text is a sequence of one-character strings.  Cyrillic literals of the  *)
(* source are written in Latin transliteration, except the letter ze,      *)
(* which is the character "ze": the source tells it from the Latin z.      *)
(***************************************************************************)
EXTENDS Integers, Sequences, FiniteSets, TLC

(***************************************************************************)
(* Text helpers (Python str methods used by the source)                    *)
(***************************************************************************)
\* Python None where a text is expected (no text has a four-letter character)
None == <<"None">>

DigitChars == {"0", "1", "2", "3", "4", "5", "6", "7", "8", "9"}

UpperChars == {"A", "C", "L", "T", "U", "Z"}

LetterChars ==
    {"a", "b", "c", "d", "e", "g", "h", "i", "k", "l", "m", "n", "o", "p",
     "r", "s", "t", "u", "v", "w", "x", "y", "z"} \cup UpperChars

SchemeChars == LetterChars \cup DigitChars \cup {"+", "-", "."}

Whitespace == {" ", "\n"}

\* str.lower() on one character
LowerChar(c) ==
    CASE c = "A" -> "a"
      [] c = "C" -> "c"
      [] c = "L" -> "l"
      [] c = "T" -> "t"
      [] c = "U" -> "u"
      [] c = "Z" -> "z"
      [] OTHER -> c

\* str.lower()
lower(s) == [i \in 1..Len(s) |-> LowerChar(s[i])]

\* str.isdigit(): non-empty and every character a digit
isdigit(s) == Len(s) > 0 /\ \A i \in 1..Len(s) : s[i] \in DigitChars

RECURSIVE lstrip(_)
lstrip(s) ==
    IF Len(s) > 0 /\ s[1] \in Whitespace THEN lstrip(Tail(s)) ELSE s

RECURSIVE rstrip(_)
rstrip(s) ==
    IF Len(s) > 0 /\ s[Len(s)] \in Whitespace
    THEN rstrip(SubSeq(s, 1, Len(s) - 1))
    ELSE s

\* str.strip()
strip(s) == rstrip(lstrip(s))

\* str.find(c) + 1: the first index of character c in s, 0 when absent
Find(s, c) ==
    IF \E i \in 1..Len(s) : s[i] = c
    THEN CHOOSE i \in 1..Len(s) : s[i] = c /\ \A j \in 1..(i - 1) : s[j] # c
    ELSE 0

\* the first index of any character of the set cs at or after position from
FindAny(s, cs, from) ==
    IF \E i \in from..Len(s) : s[i] \in cs
    THEN CHOOSE i \in from..Len(s) :
            s[i] \in cs /\ \A j \in from..(i - 1) : s[j] \notin cs
    ELSE 0

\* s[i:] with a 1-based i
From(s, i) == SubSeq(s, i, Len(s))

\* str.split(c): all the pieces, empty ones included
RECURSIVE SplitOn(_, _)
SplitOn(s, c) ==
    LET i == Find(s, c)
    IN IF i = 0 THEN <<s>>
       ELSE <<SubSeq(s, 1, i - 1)>> \o SplitOn(From(s, i + 1), c)

\* str.split(c, 1)
SplitOnce(s, c) ==
    LET i == Find(s, c)
    IN IF i = 0 THEN <<s>> ELSE <<SubSeq(s, 1, i - 1), From(s, i + 1)>>

\* [p for p in parts if p]
RECURSIVE NonEmpty(_)
NonEmpty(parts) ==
    IF parts = <<>> THEN <<>>
    ELSE IF Head(parts) = <<>> THEN NonEmpty(Tail(parts))
    ELSE <<Head(parts)>> \o NonEmpty(Tail(parts))

\* sep.join(parts)
RECURSIVE Join(_, _)
Join(parts, sep) ==
    IF parts = <<>> THEN <<>>
    ELSE IF Len(parts) = 1 THEN Head(parts)
    ELSE Head(parts) \o sep \o Join(Tail(parts), sep)

\* the substring test `q in hay`
Contains(hay, q) ==
    \/ q = <<>>
    \/ \E i \in 1..(Len(hay) - Len(q) + 1) : SubSeq(hay, i, i + Len(q) - 1) = q

(***************************************************************************)
(* urllib.parse.urlparse / parse_qs as _id_from_url_or_text uses them      *)
(***************************************************************************)
\* urlsplit: scheme, then //netloc, then #fragment, then ?query; the rest is path
urlparse(url) ==
    LET AfterScheme(i) ==
            IF /\ i > 1
               /\ url[1] \in LetterChars
               /\ \A j \in 1..(i - 1) : url[j] \in SchemeChars
            THEN From(url, i + 1)
            ELSE url
        CutNetloc(u1, delim) ==
            IF ~(Len(u1) >= 2 /\ u1[1] = "/" /\ u1[2] = "/") THEN u1
            ELSE IF delim = 0 THEN <<>> ELSE From(u1, delim)
        AfterNetloc(u1) == CutNetloc(u1, FindAny(u1, {"/", "?", "#"}, 3))
        CutFragment(u2, f) == IF f = 0 THEN u2 ELSE SubSeq(u2, 1, f - 1)
        BeforeFragment(u2) == CutFragment(u2, Find(u2, "#"))
        CutQuery(u3, q) ==
            [path  |-> IF q = 0 THEN u3 ELSE SubSeq(u3, 1, q - 1),
             query |-> IF q = 0 THEN <<>> ELSE From(u3, q + 1)]
        PathAndQuery(u3) == CutQuery(u3, Find(u3, "?"))
    IN PathAndQuery(BeforeFragment(AfterNetloc(AfterScheme(Find(url, ":")))))

\* parse_qsl: the (name, value) pairs of a query string; a pair without "="
\* or with an empty value is skipped (keep_blank_values is off)
RECURSIVE QsPairs(_)
QsPairs(fields) ==
    IF fields = <<>> THEN <<>>
    ELSE LET nv == SplitOnce(Head(fields), "=")
         IN IF Len(nv) = 2 /\ Len(nv[2]) > 0
            THEN <<nv>> \o QsPairs(Tail(fields))
            ELSE QsPairs(Tail(fields))

parse_qsl(query) == QsPairs(SplitOn(query, "&"))

\* parse_qs(query)[name][0], or None when the name is absent
QsFirst(query, name) ==
    LET First(ps) ==
            IF \E k \in 1..Len(ps) : ps[k][1] = name
            THEN ps[CHOOSE k \in 1..Len(ps) :
                       ps[k][1] = name /\ \A j \in 1..(k - 1) : ps[j][1] # name][2]
            ELSE None
    IN First(parse_qsl(query))

\* the ID a text names: a bare number, ?id=<n>, or a path .../x/task/<n>
id_from_url_or_text(text) ==
    LET ByPath(parts, n) ==
            IF n >= 3 /\ parts[n - 1] = <<"t", "a", "s", "k">> /\ isdigit(parts[n])
            THEN parts[n]
            ELSE None
        PathParts(parts) == ByPath(parts, Len(parts))
        ByQuery(u, cand) ==
            IF cand # None /\ isdigit(cand) THEN cand
            ELSE PathParts(NonEmpty(SplitOn(u.path, "/")))
        ByUrl(u) == ByQuery(u, QsFirst(u.query, <<"i", "d">>))
        Id(s) ==
            IF s = <<>> THEN None
            ELSE IF isdigit(s) THEN s
            ELSE ByUrl(urlparse(s))
    IN Id(strip(text))

(***************************************************************************)
(* Fuzzy scores (rapidfuzz.fuzz), as exact fractions 100 * num / den       *)
(***************************************************************************)
Max2(a, b) == IF a >= b THEN a ELSE b

\* one row of the longest-common-subsequence table
RECURSIVE LcsRow(_, _, _, _, _)
LcsRow(prev, c, b, j, acc) ==
    IF j > Len(b) THEN acc
    ELSE LET left == IF j = 1 THEN 0 ELSE acc[j - 1]
             diag == IF j = 1 THEN 0 ELSE prev[j - 1]
             v == IF c = b[j] THEN diag + 1 ELSE Max2(prev[j], left)
             next == Append(acc, v)
         IN IF Len(next) = j THEN LcsRow(prev, c, b, j + 1, next) ELSE <<>>

RECURSIVE LcsRows(_, _, _, _)
LcsRows(a, b, i, prev) ==
    IF i > Len(a) THEN prev
    ELSE LET row == LcsRow(prev, a[i], b, 1, <<>>)
         IN IF Len(row) = Len(b) THEN LcsRows(a, b, i + 1, row) ELSE <<>>

Lcs(a, b) ==
    IF Len(a) = 0 \/ Len(b) = 0 THEN 0
    ELSE LcsRows(a, b, 1, [j \in 1..Len(b) |-> 0])[Len(b)]

\* a score as a fraction: the value is 100 * num / den
Score(num, den) == [num |-> num, den |-> den]

ScoreGeq(x, y) == x.num * y.den >= y.num * x.den

ScoreMax(x, y) == IF ScoreGeq(x, y) THEN x ELSE y

\* score >= min_score, min_score an integer percentage
ScoreAtLeast(x, min) == 100 * x.num >= min * x.den

\* fuzz.ratio: normalized Indel similarity, 2 * LCS / (len a + len b)
ratio(a, b) ==
    IF Len(a) + Len(b) = 0 THEN Score(1, 1)
    ELSE Score(2 * Lcs(a, b), Len(a) + Len(b))

\* max(scores), 0 when there are none
MaxScore(S) ==
    IF S = {} THEN Score(0, 1)
    ELSE CHOOSE x \in S : \A y \in S : ScoreGeq(x, y)

\* fuzz.partial_ratio: the best ratio of the shorter text against the
\* prefixes, the full-length windows and the suffixes of the longer one
PartialImpl(s1, s2) ==
    LET n1 == Len(s1)
        n2 == Len(s2)
        prefixes == {SubSeq(s2, 1, i) : i \in 1..(n1 - 1)}
        windows == {SubSeq(s2, i, i + n1 - 1) : i \in 1..(n2 - n1)}
        suffixes == {From(s2, i) : i \in (n2 - n1 + 1)..n2}
    IN MaxScore({ratio(s1, x) : x \in prefixes \cup windows \cup suffixes})

partial_ratio(a, b) ==
    IF Len(a) = 0 /\ Len(b) = 0 THEN Score(1, 1)
    ELSE IF Len(a) = 0 \/ Len(b) = 0 THEN Score(0, 1)
    ELSE PartialImpl(IF Len(a) <= Len(b) THEN a ELSE b,
                     IF Len(a) <= Len(b) THEN b ELSE a)

\* str.split(): the whitespace-separated tokens
RECURSIVE Tokens(_)
Tokens(s) ==
    LET t == lstrip(s)
        i == FindAny(t, Whitespace, 1)
    IN IF t = <<>> THEN <<>>
       ELSE IF i = 0 THEN <<t>>
       ELSE <<SubSeq(t, 1, i - 1)>> \o Tokens(From(t, i))

\* code-point order of the characters the model uses
CharOrder ==
    <<"\n", " ", "#", "&", "+", "-", ".", "/",
      "0", "1", "2", "3", "4", "5", "6", "7", "8", "9",
      ":", "=", "?", "@", "A", "C", "L", "T", "U", "Z",
      "a", "b", "c", "d", "e", "g", "h", "i", "k", "l", "m", "n", "o", "p",
      "r", "s", "t", "u", "v", "w", "x", "y", "z", "|", "ze">>

Ord(c) ==
    IF \E i \in 1..Len(CharOrder) : CharOrder[i] = c
    THEN CHOOSE i \in 1..Len(CharOrder) : CharOrder[i] = c
    ELSE 0

\* a < b in Python's string order
RECURSIVE TextLess(_, _)
TextLess(a, b) ==
    IF b = <<>> THEN FALSE
    ELSE IF a = <<>> THEN TRUE
    ELSE IF a[1] = b[1] THEN TextLess(Tail(a), Tail(b))
    ELSE Ord(a[1]) < Ord(b[1])

\* " ".join(sorted(S))
RECURSIVE SortedJoin(_)
SortedJoin(S) ==
    IF S = {} THEN <<>>
    ELSE LET m == CHOOSE x \in S : \A y \in S \ {x} : TextLess(x, y)
         IN IF S = {m} THEN m ELSE m \o <<" ">> \o SortedJoin(S \ {m})

\* fuzz.token_set_ratio
token_set_ratio(a, b) ==
    LET TokenSet(ts) == {ts[i] : i \in 1..Len(ts)}
        \* the scores of the joined texts: sect_len is the length of the
        \* joined intersection, ab and ba the joined differences, dist the
        \* Indel distance of the two differences
        OfJoined(sect_len, gap, ab, ba, dist) ==
            LET sect_ab_len == sect_len + gap + Len(ab)
                sect_ba_len == sect_len + gap + Len(ba)
                Both(total) ==
                    IF total = 0 THEN Score(1, 1) ELSE Score(total - dist, total)
                sect_ab == Score(2 * sect_len + sect_ab_len - sect_len - (gap + Len(ab)),
                                 sect_len + sect_ab_len)
                sect_ba == Score(2 * sect_len + sect_ba_len - sect_len - (gap + Len(ba)),
                                 sect_len + sect_ba_len)
            IN IF sect_len = 0 THEN Both(sect_ab_len + sect_ba_len)
               ELSE ScoreMax(Both(sect_ab_len + sect_ba_len),
                             ScoreMax(sect_ab, sect_ba))
        Joined(sect_len, ab, ba) ==
            OfJoined(sect_len, IF sect_len # 0 THEN 1 ELSE 0, ab, ba,
                     Len(ab) + Len(ba) - 2 * Lcs(ab, ba))
        OfSets(ta, tb) ==
            IF ta = {} \/ tb = {} THEN Score(0, 1)
            ELSE IF ta \cap tb # {} /\ (ta \ tb = {} \/ tb \ ta = {}) THEN Score(1, 1)
            ELSE Joined(Len(SortedJoin(ta \cap tb)), SortedJoin(ta \ tb),
                        SortedJoin(tb \ ta))
    IN OfSets(TokenSet(Tokens(a)), TokenSet(Tokens(b)))

(***************************************************************************)
(* State                                                                   *)
(***************************************************************************)
VARIABLES
    env,               \* the configuration the process was started with
    user_data,         \* context.user_data of the user
    jobs,              \* the job queue: the pending inactivity callbacks
    cache,             \* bot_data["active_tasks_cache"]
    created_task_ids,  \* bot_data["created_task_ids"]
    store,             \* the Store: its active tasks and the next free ID
    chat,              \* the button messages still standing in the chat
    now,               \* time.time(), in units of the model
    trace,             \* what the last handler did: Store calls, replies
    call_in,           \* the arguments of a function applied on its own;
                       \* in the event loop, the updates waiting in its queue
    call_out           \* its result; in the event loop, where the handler
                       \* being run stands

vars == <<env, user_data, jobs, cache, created_task_ids, store, chat, now,
          trace, call_in, call_out>>

\* the cache TTL (ACTIVE_TASKS_TTL_SECONDS), in units of the model's clock
Ttl == 2

\* the length of the Store outcome script of one handler run
ScriptLen == 4

\* MATCH_MIN_SCORE
MinScore == 70

\* MAX_AUTO_APPLY_MATCHES, scaled to the model's snapshots
MaxAuto == 2

\* the capacity of the created-ID buffer, scaled to the model
BufCap == 2

(***************************************************************************)
(* The Store collaborator and the active-task cache                        *)
(***************************************************************************)
\* The handler's view of the process-wide state while it runs: a record
\* [cache, store, buf, now, calls, trace]. calls counts the Store calls made
\* so far; the k-th call of a run ends as script[k], a call past the script
\* succeeds; without TODOIST_API_TOKEN every call raises (_get_token).
World ==
    [cache |-> cache, store |-> store, buf |-> created_task_ids, now |-> now,
     calls |-> 0, trace |-> <<>>]

Outcome(w, script) ==
    IF ~env.todoist THEN "fail"
    ELSE IF w.calls < Len(script) THEN script[w.calls + 1]
    ELSE "ok"

\* the Store call about to be made raises
Fails(w, script) == Outcome(w, script) = "fail"

Log(w, e) == [w EXCEPT !.trace = Append(@, e)]

\* a Store call is made: count it and record it with its outcome
Called(w, script, name) ==
    [w EXCEPT !.calls = @ + 1,
              !.trace = Append(@, <<name, Outcome(w, script)>>)]

\* a successful mutation of the Store: the cached snapshot is now out of date
Mutated(w) == [w EXCEPT !.cache.fresh = FALSE]

\* the snapshot is served from the cache only within the TTL and when non-empty
CacheServes(w) ==
    /\ w.cache.items # <<>>
    /\ w.now - w.cache.ts < Ttl

\* _get_active_tasks_cached: [w, ok, val]; ok = FALSE when get_tasks raised
get_active_tasks_cached(w, script) ==
    LET Loaded(w1) ==
            IF ~Fails(w, script)
            THEN [w |-> [w1 EXCEPT !.cache = [items |-> w.store.tasks,
                                              ts |-> w.now, fresh |-> TRUE]],
                  ok |-> TRUE, val |-> w.store.tasks]
            ELSE [w |-> w1, ok |-> FALSE, val |-> <<>>]
    IN IF CacheServes(w) THEN [w |-> w, ok |-> TRUE, val |-> w.cache.items]
       ELSE Loaded(Called(w, script, "get_tasks"))

\* _refresh_active_tasks_cache: zero the timestamp, reload, swallow a failure
refresh_active_tasks_cache(w, script) ==
    get_active_tasks_cached([w EXCEPT !.cache.ts = 0], script).w

(***************************************************************************)
(* The entity resolver                                                     *)
(***************************************************************************)
DigitSeq == <<"0", "1", "2", "3", "4", "5", "6", "7", "8", "9">>

DigitVal(c) == (CHOOSE i \in 1..10 : DigitSeq[i] = c) - 1

\* a due value is written <<"@", d>> (the date of day d) with an optional
\* time after it; the date prefix is what due_dt[:10] is in the source
DueParses(due_dt) ==
    Len(due_dt) >= 2 /\ due_dt[1] = "@" /\ due_dt[2] \in DigitChars

\* datetime(y, m, d, tzinfo=utc).astimezone(tz).date()
LocalDateOfUtcMidnight(due_dt) ==
    IF env.tz < 0 THEN DigitVal(due_dt[2]) - 1 ELSE DigitVal(due_dt[2])

WordToday == {<<"s", "e", "g", "o", "d", "n", "y", "a">>, <<"t", "o", "d", "a", "y">>}

WordTomorrow == {<<"ze", "a", "v", "t", "r", "a">>, <<"t", "o", "m", "o", "r", "r", "o", "w">>}

WordLast ==
    {<<"l", "a", "s", "t">>,
     <<"p", "o", "s", "l", "e", "d", "n", "y", "a", "y", "a">>,
     <<"p", "o", "s", "l", "e", "d", "n", "i", "y">>}

\* the date an entity's due must fall on, or -1 for no filter
DueFilter(q) ==
    IF \E word \in WordToday : Contains(q, word) THEN env.today
    ELSE IF \E word \in WordTomorrow : Contains(q, word) THEN env.today + 1
    ELSE -1

\* rev_proj.get(str(project_id), ""): the configured name of a project ID
ProjectName(project_id) ==
    IF \E m \in env.projects : m[2] = project_id
    THEN (CHOOSE m \in env.projects : m[2] = project_id)[1]
    ELSE <<>>

Bar == <<" ", "|", " ">>

\* the searchable text of an entity (before lowercasing)
Haystack(t) ==
    Join(<<t.content, t.description, Join(t.labels, <<",", " ">>),
           ProjectName(t.project_id), t.priority, t.due>>, Bar)

\* the entity is skipped by the date filter
DueExcludes(t, due_filter) ==
    /\ due_filter # -1
    /\ t.due # <<>>
    /\ \/ ~DueParses(t.due)
       \/ LocalDateOfUtcMidnight(t.due) # due_filter

SimpleMatches(tasks, q) ==
    LET Keep(t) ==
            /\ ~DueExcludes(t, DueFilter(q))
            /\ (q = <<>> \/ Contains(lower(Haystack(t)), q))
    IN SelectSeq(tasks, Keep)

FuzzyScore(t, q) ==
    ScoreMax(partial_ratio(q, lower(Haystack(t))),
             token_set_ratio(q, lower(Haystack(t))))

\* scored.sort(key=lambda x: x[0], reverse=True): stable, best score first
RECURSIVE InsertByScore(_, _)
InsertByScore(sorted, x) ==
    IF sorted = <<>> THEN <<x>>
    ELSE IF ScoreGeq(Head(sorted).score, x.score)
    THEN <<Head(sorted)>> \o InsertByScore(Tail(sorted), x)
    ELSE <<x>> \o sorted

RECURSIVE SortByScore(_, _)
SortByScore(scored, acc) ==
    IF scored = <<>> THEN acc
    ELSE SortByScore(Tail(scored), InsertByScore(acc, Head(scored)))

\* a fuzzy tier that keeps the cache order
FuzzyMatches_Unsorted(tasks, q) ==
    LET Keep(t) == ScoreAtLeast(FuzzyScore(t, q), MinScore)
    IN IF env.fuzzy THEN SelectSeq(tasks, Keep) ELSE <<>>

\* the (score, entity) pairs at or above the minimum score, best first,
\* and of these the entities
FuzzyMatches(tasks, q) ==
    LET Keep(x) == ScoreAtLeast(x.score, MinScore)
        Entities(scored) == [i \in 1..Len(scored) |-> scored[i].t]
    IN IF env.fuzzy
       THEN Entities(SortByScore(
                SelectSeq([i \in 1..Len(tasks) |->
                              [score |-> FuzzyScore(tasks[i], q), t |-> tasks[i]]],
                          Keep),
                <<>>))
       ELSE <<>>

\* an ID tier that does not select
ById_All(tasks, tid) == tasks

ById(tasks, tid) ==
    LET Keep(t) == t.id = tid
    IN SelectSeq(tasks, Keep)

\* the ID tier: the ID named by the target, else by the fallback text
TargetId(target_text, fallback_text) ==
    LET OrFallback(tid) ==
            IF tid = None /\ fallback_text # <<>>
            THEN id_from_url_or_text(fallback_text)
            ELSE tid
    IN OrFallback(id_from_url_or_text(target_text))

\* _resolve_targets on a loaded snapshot
ResolveIn(target_text, fallback_text, tasks, last_ids) ==
    LET q == lower(target_text)
        \* the tiers in their order; each is computed only when it is reached
        Tiers(tid, simple, fuzzy) ==
            IF tid # None THEN ById(tasks, tid)
            ELSE IF strip(q) \in WordLast /\ last_ids # <<>>
            THEN ById(tasks, last_ids[Len(last_ids)])
            ELSE IF simple # <<>> THEN simple
            ELSE fuzzy
    IN Tiers(TargetId(target_text, fallback_text), SimpleMatches(tasks, q),
             FuzzyMatches(tasks, q))

\* _resolve_targets: [w, ok, val]; ok = FALSE when loading the snapshot raised
resolve_targets(target_text, w, script, fallback_text) ==
    LET r == get_active_tasks_cached(w, script)
    IN IF ~r.ok THEN r
       ELSE [w |-> Log(r.w, <<"resolve", IF r.w.cache.fresh THEN "fresh" ELSE "stale">>),
             ok |-> TRUE,
             val |-> ResolveIn(target_text, fallback_text, r.val, r.w.buf)]

(***************************************************************************)
(* The DateTime normalizer.  A datetime text is <<"@", d>> (the date of    *)
(* day d), then optionally "T" and a two-digit hour, then optionally a zone:*)
(* "Z", or a sign and one digit for an offset of that many hours.          *)
(***************************************************************************)
\* datetime.fromisoformat(s.replace("Z", "+00:00")); ok = FALSE when it raises
ParseDt(s) ==
    LET dateOk == Len(s) >= 2 /\ s[1] = "@" /\ s[2] \in DigitChars
        Zoned(hasTime, rest, hour, signed) ==
            IF dateOk /\ (rest = <<>> \/ (hasTime /\ (rest = <<"Z">> \/ signed)))
                      /\ hour < 24
            THEN [ok |-> TRUE, day |-> DigitVal(s[2]), hour |-> hour,
                  aware |-> rest # <<>>,
                  off |-> IF signed
                          THEN (IF rest[1] = "-" THEN 0 - DigitVal(rest[2])
                                ELSE DigitVal(rest[2]))
                          ELSE 0]
            ELSE [ok |-> FALSE, day |-> 0, hour |-> 0, aware |-> FALSE, off |-> 0]
        Timed(hasTime, rest) ==
            Zoned(hasTime, rest,
                  IF hasTime THEN 10 * DigitVal(s[4]) + DigitVal(s[5]) ELSE 0,
                  Len(rest) = 2 /\ rest[1] \in {"+", "-"} /\ rest[2] \in DigitChars)
        Dated(hasTime) == Timed(hasTime, IF hasTime THEN From(s, 6) ELSE From(s, 3))
    IN Dated(/\ Len(s) >= 5
             /\ s[3] = "T"
             /\ s[4] \in DigitChars
             /\ s[5] \in DigitChars)

\* dt.astimezone(tz): the same instant on the clock of offset off
AsTimezone(dt, off) ==
    LET h == dt.hour - dt.off + off
    IN [dt EXCEPT
          !.day = IF h < 0 THEN @ - 1 ELSE IF h >= 24 THEN @ + 1 ELSE @,
          !.hour = IF h < 0 THEN h + 24 ELSE IF h >= 24 THEN h - 24 ELSE h,
          !.aware = TRUE,
          !.off = off]

\* dt.replace(tzinfo=tz): the same clock reading, labelled with offset off
ReplaceTz(dt, off) == [dt EXCEPT !.aware = TRUE, !.off = off]

\* ZoneInfo(USER_TIMEZONE): the home timezone has the offset env.tz; with
\* daylight saving (env.dst) its clock is moved one hour forward when
\* standard time reaches SpringForward, and the offset is env.tz + 1 from then
SpringForward == [day |-> 1, hour |-> 2]

\* the clock reading (day, hour) is at or after hour h of the day of the change
AtOrAfterChange(day, hour, h) ==
    day > SpringForward.day \/ (day = SpringForward.day /\ hour >= h)

\* local_tz.utcoffset(dt) of a clock reading (fold = 0): a reading in the
\* hour the change skips has the offset from before the change
LocalOffsetOfWall(dt) ==
    IF env.dst /\ AtOrAfterChange(dt.day, dt.hour, SpringForward.hour + 1)
    THEN env.tz + 1
    ELSE env.tz

\* dt.replace(tzinfo=local_tz): the same clock reading, labelled local
AttachLocal(dt) == ReplaceTz(dt, LocalOffsetOfWall(dt))

\* dt.astimezone(local_tz): the same instant on the home clock
ToLocal(dt) ==
    LET Zone(std) ==
            IF env.dst /\ AtOrAfterChange(std.day, std.hour, SpringForward.hour)
            THEN env.tz + 1
            ELSE env.tz
    IN AsTimezone(dt, Zone(AsTimezone(dt, env.tz)))

\* dt.replace(tzinfo=None)
DropTz(dt) == [dt EXCEPT !.aware = FALSE, !.off = 0]

\* dt.isoformat()
IsoFormat(dt) ==
    <<"@", DigitSeq[dt.day + 1], "T", DigitSeq[(dt.hour \div 10) + 1],
      DigitSeq[(dt.hour % 10) + 1]>>
    \o (IF ~dt.aware THEN <<>>
        ELSE IF dt.off < 0 THEN <<"-", DigitSeq[(0 - dt.off) + 1]>>
        ELSE <<"+", DigitSeq[dt.off + 1]>>)

\* _should_force_local_from_input
ZoneMarkers ==
    {<<"u", "t", "c">>, <<"g", "m", "t">>, <<"+", "0">>, <<"+", "1">>,
     <<"+", "2">>, <<"+", "3">>, <<"-", "0">>, <<"-", "1">>, <<"-", "2">>,
     <<"-", "3">>, <<"z">>}

RelativeWords ==
    WordToday \cup WordTomorrow \cup
    {<<"p", "o", "s", "l", "e", "ze", "a", "v", "t", "r", "a">>}

\* the characters \w matches
WordChars == LetterChars \cup DigitChars \cup {"_", "ze"}

\* re.search(r"\b\d{1,2}:\d{2}\b", t)
HasClockTime(t) ==
    \E i \in 1..Len(t) : \E n \in 1..2 :
        /\ i + n + 2 <= Len(t)
        /\ \A k \in i..(i + n - 1) : t[k] \in DigitChars
        /\ t[i + n] = ":"
        /\ t[i + n + 1] \in DigitChars
        /\ t[i + n + 2] \in DigitChars
        /\ (i = 1 \/ t[i - 1] \notin WordChars)
        /\ (i + n + 2 = Len(t) \/ t[i + n + 3] \notin WordChars)

should_force_local_from_input(text) ==
    IF \E x \in ZoneMarkers : Contains(lower(text), x) THEN FALSE
    ELSE IF \E x \in RelativeWords : Contains(lower(text), x) THEN TRUE
    ELSE HasClockTime(lower(text))

\* a conversion that labels every clock reading local without converting it
to_local_with_offset_KeepClock(dt_str, force_local) ==
    LET Of(s, dt) ==
            IF s = <<>> THEN None
            ELSE IF ~dt.ok THEN s
            ELSE IsoFormat(AttachLocal(DropTz(dt)))
        Parsed(s) == Of(s, ParseDt(s))
    IN Parsed(strip(dt_str))

\* a conversion that keeps the clock reading of a zoned datetime when it is
\* told to force local time, and converts it otherwise
to_local_with_offset_Forcing(dt_str, force_local) ==
    LET Of(s, dt) ==
            IF s = <<>> THEN None
            ELSE IF ~dt.ok THEN s
            ELSE IF ~dt.aware \/ force_local
                 THEN IsoFormat(AttachLocal(DropTz(dt)))
            ELSE IsoFormat(ToLocal(dt))
        Parsed(s) == Of(s, ParseDt(s))
    IN Parsed(strip(dt_str))

\* _to_local_with_offset: naive is labelled local, aware is converted to local
to_local_with_offset(dt_str, force_local) ==
    LET Of(s, dt) ==
            IF s = <<>> THEN None
            ELSE IF ~dt.ok THEN s
            ELSE IF ~dt.aware THEN IsoFormat(AttachLocal(dt))
            ELSE IsoFormat(ToLocal(dt))
        Parsed(s) == Of(s, ParseDt(s))
    IN Parsed(strip(dt_str))

\* _format_local_wall
format_local_wall(dt_str, original_input) ==
    LET Of(s, dt) ==
            IF s = <<>> THEN <<"-">>
            ELSE IF ~dt.ok THEN s
            ELSE IF dt.aware THEN IsoFormat(DropTz(ToLocal(dt)))
            ELSE IsoFormat(dt)
        Parsed(s) == Of(s, ParseDt(s))
    IN Parsed(strip(dt_str))

\* _to_utc_z
to_utc_z(dt_str, force_local) ==
    LET Utc(dt) ==
            AsTimezone(IF ~dt.aware \/ force_local THEN AttachLocal(dt)
                       ELSE dt, 0)
        Of(s, dt) ==
            IF s = <<>> THEN None
            ELSE IF ~dt.ok THEN s
            ELSE SubSeq(IsoFormat(Utc(dt)), 1, 5) \o <<"Z">>
        Parsed(s) == Of(s, ParseDt(s))
    IN Parsed(strip(dt_str))

\* a conversion that hands back what it cannot parse untrimmed
to_local_naive_Untrimmed(dt_str) ==
    LET Of(s, dt) ==
            IF s = <<>> THEN None
            ELSE IF ~dt.ok THEN dt_str
            ELSE IsoFormat(DropTz(dt))
        Parsed(s) == Of(s, ParseDt(s))
    IN Parsed(strip(dt_str))

\* _to_local_naive
to_local_naive(dt_str) ==
    LET Of(s, dt) ==
            IF s = <<>> THEN None
            ELSE IF ~dt.ok THEN s
            ELSE IsoFormat(DropTz(dt))
        Parsed(s) == Of(s, ParseDt(s))
    IN Parsed(strip(dt_str))

(***************************************************************************)
(* Extraction results and the Oracle (src/schema.py, src/llm.py)           *)
(***************************************************************************)
\* ExtractionResult(): every collection empty
EmptyResult ==
    [tasks_new |-> <<>>, tasks_updates |-> <<>>, reminders |-> <<>>,
     clarifying_questions |-> <<>>, intents |-> <<>>]

\* user_data.get("pending_result") when nothing is pending
NoResult == [none |-> TRUE]

\* One Oracle response per configured model: the call raised ("error"),
\* returned nothing ("nodata", no API key), returned text that is not JSON
\* ("malformed"), JSON the schema rejects ("badschema"), or a result ("ok").
Resp(kind, result) == [kind |-> kind, result |-> result]

\* ExtractionResult.model_validate(_safe_json_loads(content)): text that is
\* not JSON loads as {} and validates as the empty result
Parsed(resp) ==
    IF resp.kind = "malformed" THEN EmptyResult ELSE resp.result

\* the response of this model ends the loop over the models
Answers(resp) == resp.kind \in {"ok", "malformed"}

\* the loop `for m in _get_models_list()`: the first response that parses
RECURSIVE FirstParsed(_, _)
FirstParsed(resps, default) ==
    IF resps = <<>> THEN default
    ELSE IF Answers(Head(resps)) THEN Parsed(Head(resps))
    ELSE FirstParsed(Tail(resps), default)

extract_tasks(resps) == FirstParsed(resps, EmptyResult)

\* a refine that gives up the current result when every model fails
refine_tasks_Dropping(current, resps) == FirstParsed(resps, EmptyResult)

refine_tasks(current, resps) == FirstParsed(resps, current)

\* validate_extraction: one call to the validator model, when one is configured
validate_extraction(candidate, vresp) ==
    IF ~env.validator THEN candidate
    ELSE IF Answers(vresp) THEN Parsed(vresp)
    ELSE candidate

(***************************************************************************)
(* The conversation state of the user and the inactivity timer             *)
(***************************************************************************)
\* user_data after clear(): every key absent
EmptyUserData ==
    [awaiting_clarifications |-> FALSE,
     awaiting_refine_input |-> FALSE,
     session_expired |-> FALSE,
     pending_result |-> NoResult,
     original_input |-> <<>>,
     query_preview_answer |-> <<>>,
     timeout_job |-> 0]

\* the most timeout jobs the model lets stand in the queue
MaxJobs == 2

\* the most preview messages the model counts in the chat
MaxPreviews == 2

\* the longest accumulated input from which another clarification round starts
MaxInputLen == 6

\* update.effective_user.id of the events of the model
Sender == 1

\* _check_user_access: ALLOWED_USER_ID unset (written 0) lets everyone in
check_user_access == env.allowed = 0 \/ env.allowed = Sender

\* What a handler works on: m = [ud, jobs, chat, w]
Machine ==
    [ud |-> user_data, jobs |-> jobs, chat |-> chat, w |-> World]

\* jq.run_once: a job ID not in the queue
NewJob(queue) == CHOOSE j \in 1..(MaxJobs + 1) : j \notin queue

\* schedule_removal() of the job user_data remembers, if any
Cancelled(m) ==
    IF m.ud.timeout_job # 0 THEN m.jobs \ {m.ud.timeout_job} ELSE m.jobs

\* _touch_activity
touch_activity(m) ==
    LET Scheduled(left, j) ==
            [m EXCEPT !.jobs = left \cup {j}, !.ud.timeout_job = j]
        RunOnce(left) ==
            IF ~env.job_queue THEN [m EXCEPT !.jobs = left]
            ELSE Scheduled(left, NewJob(left))
    IN RunOnce(Cancelled(m))

\* the queue has room for the job a touch schedules
CanTouch ==
    IF env.job_queue /\ user_data.timeout_job = 0
    THEN Cardinality(jobs) < MaxJobs
    ELSE TRUE

\* reply_text / send_message: <<"reply", kind, payload, markup>>
Reply(m, kind, payload, markup) ==
    [m EXCEPT
        !.w.trace = Append(@, <<"reply", kind, payload, markup>>),
        !.chat.previews = IF markup = "preview_kb" THEN @ + 1 ELSE @,
        !.chat.project_kb = @ \/ markup = "project_kb"]

\* _project_keyboard_if_needed: a keyboard when a question is about the
\* project and PROJECTS names at least one
ProjectKeyboard(questions) ==
    IF (\E i \in 1..Len(questions) : questions[i] = "project") /\ env.projects # {}
    THEN "project_kb"
    ELSE "none"

\* _extract_query_intent: the first intent of type query, or NoIntent
NoIntent == [type |-> "none", question |-> <<>>]

extract_query_intent(result) ==
    IF \E i \in 1..Len(result.intents) : result.intents[i].type = "query"
    THEN result.intents[CHOOSE i \in 1..Len(result.intents) :
            /\ result.intents[i].type = "query"
            /\ \A j \in 1..(i - 1) : result.intents[j].type # "query"]
    ELSE NoIntent

\* the answer the Oracle writes for a question
AnswerText(question) == <<"A">> \o question

\* _maybe_prepare_query_preview: fetch (a failure gives no tasks), ask the
\* Oracle (a failure gives ""), store the answer
maybe_prepare_query_preview(m, result, inp) ==
    LET Prepared(qi) ==
            IF qi = NoIntent
            THEN [m EXCEPT !.ud.query_preview_answer = <<>>]
            ELSE [m EXCEPT
                    !.w = Called(m.w, inp.script, "get_tasks_filtered"),
                    !.ud.query_preview_answer =
                        IF inp.ans THEN AnswerText(qi.question) ELSE <<>>]
    IN Prepared(extract_query_intent(result))

\* the query-only test of _show_preview and _render_preview_text
IsQueryOnly(ud, result) ==
    /\ result.tasks_new = <<>>
    /\ result.reminders = <<>>
    /\ result.tasks_updates = <<>>
    /\ ud.query_preview_answer # <<>>

\* the match-count annotations of _render_preview_text: one resolve per update
RECURSIVE RenderUpdates(_, _, _, _)
RenderUpdates(w, updates, original, script) ==
    IF updates = <<>> THEN w
    ELSE RenderUpdates(
            resolve_targets(Head(updates).target, w, script, original).w,
            Tail(updates), original, script)

\* _render_preview_text, for what it reads and calls
render_preview(m, result, original, inp) ==
    LET quick == get_active_tasks_cached(m.w, inp.script)
    IN IF IsQueryOnly(m.ud, result) \/ result.tasks_updates = <<>> \/ ~env.todoist
       THEN m
       ELSE IF ~quick.ok \/ quick.val = <<>> THEN [m EXCEPT !.w = quick.w]
       ELSE [m EXCEPT !.w = RenderUpdates(quick.w, result.tasks_updates,
                                           original, inp.script)]

\* _show_preview
show_preview(m, result, original, inp) ==
    LET Send(m3) ==
            Reply(m3,
                  IF IsQueryOnly(m3.ud, result) THEN "answer" ELSE "preview",
                  m3.ud.query_preview_answer, "preview_kb")
    IN IF IsQueryOnly(m.ud, result)
       THEN Reply(m, "answer", m.ud.query_preview_answer, "none")
       ELSE Send(render_preview(
                    maybe_prepare_query_preview(
                        [m EXCEPT !.ud.pending_result = result,
                                  !.ud.original_input = original],
                        result, inp),
                    result, original, inp))

\* the separator put before the user's answers to clarifying questions
AnswersMarker == <<"\n", "a", ":", "\n">>

\* the separator put before the project chosen by button
ProjectMarker(chosen) ==
    <<"\n", "p", "=">> \o (IF chosen = <<>> THEN <<"n", "u", "l", "l">> ELSE chosen)
        \o <<"\n">>

\* the questions of a result are asked and the state waits for the answers
AskQuestions(m, result, original, markup) ==
    Reply([m EXCEPT !.ud.awaiting_clarifications = TRUE,
                    !.ud.original_input = original],
          "questions", <<>>, markup)

\* the refine branch shared by handle_text and handle_voice
RefineBranch(m, text, inp) ==
    IF m.ud.pending_result = NoResult
    THEN Reply([m EXCEPT !.ud.awaiting_refine_input = FALSE], "no_data", <<>>, "none")
    ELSE LET updated == validate_extraction(
                            refine_tasks(m.ud.pending_result, inp.resps), inp.vresp)
         IN show_preview([m EXCEPT !.ud.pending_result = updated,
                                   !.ud.awaiting_refine_input = FALSE],
                         updated, m.ud.original_input, inp)

\* the first extraction of a message, validated
FreshBranch(m, text, inp) ==
    LET result == validate_extraction(extract_tasks(inp.resps), inp.vresp)
    IN IF result.clarifying_questions # <<>>
       THEN AskQuestions(m, result, text, "none")
       ELSE show_preview(m, result, text, inp)

\* a clarification round: re-extract on the accumulated text
ClarifyBranch(m, combined, inp) ==
    LET result == extract_tasks(inp.resps)
        m1 == [m EXCEPT !.ud.awaiting_clarifications = FALSE,
                        !.ud.original_input = <<>>]
    IN IF result.clarifying_questions # <<>>
       THEN AskQuestions(m1, result, combined,
                         ProjectKeyboard(result.clarifying_questions))
       ELSE show_preview(m1, result, combined, inp)

\* a handler that keeps the state of an expired session
ResetIfExpired_Not(m) == m

\* context.user_data.clear() when the session had expired
ResetIfExpired(m) ==
    IF m.ud.session_expired THEN [m EXCEPT !.ud = EmptyUserData] ELSE m

\* the refusal _check_user_access sends and logs before it returns False
Refused(m) ==
    [Reply(m, "refusal", <<>>, "none") EXCEPT
        !.w = Log(@, <<"log", "unauthorized">>)]

\* handle_text
handle_text(m0, text, inp) ==
    LET m == ResetIfExpired(touch_activity(m0))
    IN IF ~check_user_access THEN Refused(m0)
       ELSE IF strip(text) = <<>> THEN Reply(m, "empty", <<>>, "none")
       ELSE IF m.ud.awaiting_refine_input THEN RefineBranch(m, text, inp)
       ELSE IF m.ud.awaiting_clarifications
       THEN ClarifyBranch(m, m.ud.original_input \o AnswersMarker \o text, inp)
       ELSE FreshBranch(m, text, inp)

\* handle_voice; transcript = None stands for a voice message that could
\* not be fetched, converted or transcribed
handle_voice(m0, transcript, inp) ==
    LET m == ResetIfExpired(touch_activity(m0))
    IN IF ~check_user_access THEN Refused(m0)
       ELSE IF transcript = None THEN Reply(m, "voice_error", <<>>, "none")
       ELSE IF m.ud.awaiting_refine_input THEN RefineBranch(m, transcript, inp)
       ELSE FreshBranch(m, transcript, inp)

\* on_clarify_callback for a clarify:project:<chosen> button; it starts
\* with q.answer() and _touch_activity, without _check_user_access
on_clarify_callback(m0, chosen, inp) ==
    LET m == touch_activity(m0)
    IN IF m.ud.original_input = <<>> THEN Reply(m, "no_source", <<>>, "none")
       ELSE ClarifyBranch(m, m.ud.original_input \o ProjectMarker(chosen), inp)

\* a timeout that also drops what was being previewed
on_session_timeout_Forgetting(m, j) ==
    Reply([m EXCEPT !.jobs = @ \ {j},
                    !.ud = [EmptyUserData EXCEPT !.session_expired = TRUE]],
          "session_expired", <<>>, "none")

\* _on_session_timeout of job j
on_session_timeout(m, j) ==
    Reply([m EXCEPT !.jobs = @ \ {j},
                    !.ud.awaiting_clarifications = FALSE,
                    !.ud.awaiting_refine_input = FALSE,
                    !.ud.session_expired = TRUE,
                    !.ud.timeout_job = 0],
          "session_expired", <<>>, "none")

(***************************************************************************)
(* Confirm: applying the pending result to the Store                       *)
(***************************************************************************)
\* the ID the Store gives its n-th entity
IdText(n) == <<DigitSeq[n + 1]>>

\* _priority_to_todoist, written as the Store shows it
priority_to_todoist(priority) ==
    CASE priority = "low" -> <<"1">>
      [] priority = "medium" -> <<"2">>
      [] priority = "high" -> <<"3">>
      [] priority = "urgent" -> <<"4">>
      [] OTHER -> <<>>

\* [x.strip().lower() for x in labels if x.strip()]
RECURSIVE CleanLabels(_)
CleanLabels(labels) ==
    IF labels = <<>> THEN <<>>
    ELSE IF strip(Head(labels)) = <<>> THEN CleanLabels(Tail(labels))
    ELSE <<lower(strip(Head(labels)))>> \o CleanLabels(Tail(labels))

\* list(dict.fromkeys(xs)): the first occurrence of each element, in order
RECURSIVE Dedup(_, _)
Dedup(xs, acc) ==
    IF xs = <<>> THEN acc
    ELSE IF \E i \in 1..Len(acc) : acc[i] = Head(xs) THEN Dedup(Tail(xs), acc)
    ELSE Dedup(Tail(xs), Append(acc, Head(xs)))

\* the marker put before the source text in a description
SourceMarker == <<"s", ":">>

\* the marker put before the title of a placeholder task
ReminderMarker == <<"r", ":">>

\* the marker put before an appended description
UpdMarker == <<"U", ":">>

\* the payload of create_task for a new task (lines 852-874); a field that
\* is not sent is <<>>
TaskFields(t, original) ==
    [content |-> t.title,
     description |->
        Join(NonEmpty(<<t.body,
                        IF t.source_text = <<>> THEN <<>>
                        ELSE SourceMarker \o t.source_text>>), <<"\n">>),
     labels |->
        Dedup(CleanLabels(t.labels)
              \o (IF t.direction = <<>> THEN <<>>
                  ELSE <<lower(strip(t.direction))>>), <<>>),
     priority |-> priority_to_todoist(t.priority),
     due |-> IF t.deadline = <<>> THEN <<>>
             ELSE to_local_with_offset(t.deadline,
                                       should_force_local_from_input(original))]

\* the payload of create_task for the placeholder of a reminder
PlaceholderFields(title) ==
    [content |-> ReminderMarker \o title, description |-> <<>>,
     labels |-> <<>>, priority |-> <<>>, due |-> <<>>]

\* the entity the Store makes of a payload; its default priority is 1
NewEntity(n, fields) ==
    [id |-> IdText(n), content |-> fields.content,
     description |-> fields.description, labels |-> fields.labels,
     project_id |-> <<>>,
     priority |-> IF fields.priority = <<>> THEN <<"1">> ELSE fields.priority,
     due |-> fields.due]

\* todoist_client.create_task: [w, ok, id]; the outcome "noid" is a success
\* whose response body carries no id
create_task(w, script, fields) ==
    LET Posted(w1, outcome) ==
            IF outcome = "fail" THEN [w |-> w1, ok |-> FALSE, id |-> <<>>]
            ELSE [w |-> Mutated([w1 EXCEPT
                            !.store.tasks =
                                Append(@, NewEntity(w.store.next_id, fields)),
                            !.store.next_id = @ + 1]),
                  ok |-> TRUE,
                  id |-> IF outcome = "noid" THEN <<>>
                         ELSE IdText(w.store.next_id)]
    IN Posted(Called(w, script, "create_task"), Outcome(w, script))

\* a buffer that, once full, keeps what it has
BufAppend_KeepOldest(buf, tid) ==
    IF Len(buf) + 1 > BufCap THEN buf ELSE Append(buf, tid)

\* buf.append(str(tid)); del buf[: len(buf) - 20]
BufAppend(buf, tid) ==
    IF Len(buf) + 1 > BufCap
    THEN SubSeq(Append(buf, tid), Len(buf) + 2 - BufCap, Len(buf) + 1)
    ELSE Append(buf, tid)

\* a loop over pending.tasks_new that ends at the first failure
RECURSIVE CreateAll_StopOnFailure(_, _, _, _, _)
CreateAll_StopOnFailure(w, tasks_new, local_created_ids, original, script) ==
    IF tasks_new = <<>> THEN [w |-> w, ids |-> local_created_ids]
    ELSE LET t == Head(tasks_new)
             Noted(r) ==
                 IF r.ok
                 THEN [w |-> Log([r.w EXCEPT !.buf = BufAppend(@, r.id)],
                                 <<"info", "created", t.title>>),
                       ids |-> IF r.id # <<>> THEN Append(local_created_ids, r.id)
                               ELSE local_created_ids,
                       ok |-> TRUE]
                 ELSE [w |-> Log(r.w, <<"info", "create_failed", t.title>>),
                       ids |-> local_created_ids, ok |-> FALSE]
             Rest(x) ==
                 IF x.ok
                 THEN CreateAll_StopOnFailure(x.w, Tail(tasks_new), x.ids,
                                              original, script)
                 ELSE [w |-> x.w, ids |-> x.ids]
         IN Rest(Noted(create_task(w, script, TaskFields(t, original))))

\* the loop over pending.tasks_new (lines 851-895): [w, ids]
RECURSIVE CreateAll(_, _, _, _, _)
CreateAll(w, tasks_new, local_created_ids, original, script) ==
    IF tasks_new = <<>> THEN [w |-> w, ids |-> local_created_ids]
    ELSE LET t == Head(tasks_new)
             \* the state and the created IDs after this task
             Noted(r) ==
                 IF r.ok
                 THEN [w |-> Log([r.w EXCEPT !.buf = BufAppend(@, r.id)],
                                 <<"info", "created", t.title>>),
                       ids |-> IF r.id # <<>> THEN Append(local_created_ids, r.id)
                               ELSE local_created_ids]
                 ELSE [w |-> Log(r.w, <<"info", "create_failed", t.title>>),
                       ids |-> local_created_ids]
             Rest(x) == CreateAll(x.w, Tail(tasks_new), x.ids, original, script)
         IN Rest(Noted(create_task(w, script, TaskFields(t, original))))

\* todoist_client.create_reminder(item_id, due={"datetime": at})
create_reminder(w, script, item_id, title, at) ==
    LET Posted(w1) ==
            IF Fails(w, script)
            THEN Log(w1, <<"info", "reminder_failed", title>>)
            ELSE Log(Log(w1, <<"reminder", item_id, title, at>>),
                     <<"info", "reminder_set", title>>)
    IN Posted(Called(w, script, "create_reminder"))

\* a loop body that turns the offset of a reminder without a time into one
Remind_FromOffset(w, script, r, target_task_id) ==
    IF target_task_id = <<>> THEN w
    ELSE IF r.at = <<>> /\ r.offset = <<>>
    THEN Log(w, <<"info", "reminder_skipped", r.title>>)
    ELSE create_reminder(w, script, target_task_id, r.title,
                         IF r.at = <<>> THEN r.offset ELSE r.at)

\* the body of the loop over pending.reminders once a target is known
Remind(w, script, r, target_task_id) ==
    IF target_task_id = <<>> THEN w
    ELSE IF r.at = <<>> THEN Log(w, <<"info", "reminder_skipped", r.title>>)
    ELSE create_reminder(w, script, target_task_id, r.title, r.at)

\* the loop over pending.reminders (lines 902-964); target_task_id is one
\* variable for the whole loop
RECURSIVE RemindAll(_, _, _, _, _)
RemindAll(w, reminders, target_task_id, original, script) ==
    IF reminders = <<>> THEN w
    ELSE LET r == Head(reminders)
             \* the state and target_task_id after this reminder
             Placed(made) ==
                 IF ~made.ok
                 THEN [w |-> Log(made.w, <<"info", "placeholder_failed", r.title>>),
                       id |-> <<>>]
                 ELSE [w |-> Remind(Log(made.w, <<"info", "placeholder_created",
                                                  r.title>>),
                                    script, r, made.id),
                       id |-> made.id]
             Attached(w1, t1) ==
                 IF t1 # <<>>
                 THEN [w |-> Remind(w1, script, r, t1), id |-> t1]
                 ELSE Placed(create_task(w1, script, PlaceholderFields(r.title)))
             Looked(found) ==
                 IF found.ok /\ found.val # <<>>
                 THEN Attached(Log(found.w, <<"info", "attached",
                                              found.val[1].content>>),
                               found.val[1].id)
                 ELSE Attached(found.w, <<>>)
             Rest(x) == RemindAll(x.w, Tail(reminders), x.id, original, script)
         IN Rest(IF target_task_id # <<>>
                 THEN Attached(w, target_task_id)
                 ELSE Looked(resolve_targets(r.title, w, script, original)))

\* a line was added to created_infos / update_infos since the trace had
\* length n
HasInfo(w, n) ==
    \E i \in (n + 1)..Len(w.trace) : w.trace[i][1] = "info"

\* the labels sent with an update (lines 1004-1010); <<>> when none is sent
NewLabels(current_labels, ch) ==
    LET added == current_labels \o CleanLabels(ch.labels_add)
        Keep(l) == \A i \in 1..Len(ch.labels_remove) :
                      strip(ch.labels_remove[i]) = <<>>
                      \/ lower(l) # lower(strip(ch.labels_remove[i]))
    IN Dedup(SelectSeq(added, Keep), <<>>)

\* the description sent with an update (lines 1043-1055)
NewDescription(current_desc, ch) ==
    IF ch.description = <<>> THEN strip(current_desc)
    ELSE strip(strip(current_desc)
               \o (IF strip(current_desc) = <<>> THEN <<>> ELSE <<"\n">>)
               \o UpdMarker \o ch.description)

\* the payload of update_task computed from the snapshot's copy of the
\* entity; a field that is not sent is <<>> (the description is always sent)
UpdateFields(task, ch, original) ==
    [content |-> ch.title,
     description |-> NewDescription(task.description, ch),
     labels |-> NewLabels(task.labels, ch),
     priority |-> priority_to_todoist(ch.priority),
     due |-> IF ch.deadline = <<>> THEN <<>>
             ELSE to_local_with_offset(ch.deadline,
                                       should_force_local_from_input(original))]

\* what the Store makes of an update of one of its entities
Patched(e, fields) ==
    [e EXCEPT
        !.content = IF fields.content = <<>> THEN @ ELSE fields.content,
        !.description = fields.description,
        !.labels = IF fields.labels = <<>> THEN @ ELSE fields.labels,
        !.priority = IF fields.priority = <<>> THEN @ ELSE fields.priority,
        !.due = IF fields.due = <<>> THEN @ ELSE fields.due]

\* todoist_client.update_task: [w, ok]
update_task(w, script, tid, fields) ==
    LET Posted(w1) ==
            IF Fails(w, script) THEN [w |-> w1, ok |-> FALSE]
            ELSE [w |-> Mutated([w1 EXCEPT
                            !.store.tasks =
                                [i \in 1..Len(@) |->
                                    IF @[i].id = tid THEN Patched(@[i], fields)
                                    ELSE @[i]]]),
                  ok |-> TRUE]
    IN Posted(Called(w, script, "update_task"))

\* todoist_client.close_task: the entity leaves the active tasks
close_task(w, script, tid) ==
    LET Open(e) == e.id # tid
        Posted(w1) ==
            IF Fails(w, script) THEN [w |-> w1, ok |-> FALSE]
            ELSE [w |-> Mutated([w1 EXCEPT
                            !.store.tasks = SelectSeq(@, Open),
                            !.store.closed = @ \o ById(w.store.tasks, tid)]),
                  ok |-> TRUE]
    IN Posted(Called(w, script, "close_task"))

\* todoist_client.reopen_task: a closed entity is active again
reopen_task(w, script, tid) ==
    LET Other(e) == e.id # tid
        Posted(w1) ==
            IF Fails(w, script) THEN [w |-> w1, ok |-> FALSE]
            ELSE [w |-> Mutated([w1 EXCEPT
                            !.store.tasks = @ \o ById(w.store.closed, tid),
                            !.store.closed = SelectSeq(@, Other)]),
                  ok |-> TRUE]
    IN Posted(Called(w, script, "reopen_task"))

\* the try block of one matched entity (lines 1058-1077).  TaskChanges has
\* no project field, so move_pid is None and move_task is never called.
UpdateOne(w, script, task, ch, original) ==
    LET Noted(s) ==
            IF ~s.ok THEN Log(s.w, <<"info", "update_failed", task.content>>)
            ELSE Log(s.w, <<"info", "updated", task.content>>)
        Status(u) ==
            Noted(IF ~u.ok THEN u
                  ELSE IF ch.status = "done" THEN close_task(u.w, script, task.id)
                  ELSE IF ch.status = "todo" THEN reopen_task(u.w, script, task.id)
                  ELSE u)
    IN Status(update_task(w, script, task.id, UpdateFields(task, ch, original)))

\* the loop over the targets of one update
RECURSIVE UpdateEach(_, _, _, _, _)
UpdateEach(w, script, targets, ch, original) ==
    IF targets = <<>> THEN w
    ELSE UpdateEach(UpdateOne(w, script, Head(targets), ch, original), script,
                    Tail(targets), ch, original)

\* an update applied to every match, however many
UpdateTargets_NoCap(targets, upd, original, script) ==
    IF ~targets.ok THEN [w |-> Log(targets.w, <<"raise">>), raised |-> TRUE]
    ELSE IF targets.val = <<>>
    THEN [w |-> Log(targets.w, <<"info", "not_found", upd.target>>),
          raised |-> FALSE]
    ELSE [w |-> UpdateEach(targets.w, script, targets.val, upd.changes, original),
          raised |-> FALSE]

\* one update once its targets are resolved (lines 989-1077): [w, raised]
UpdateTargets(targets, upd, original, script) ==
    IF ~targets.ok THEN [w |-> Log(targets.w, <<"raise">>), raised |-> TRUE]
    ELSE IF targets.val = <<>>
    THEN [w |-> Log(targets.w, <<"info", "not_found", upd.target>>),
          raised |-> FALSE]
    ELSE IF Len(targets.val) > MaxAuto
    THEN [w |-> Log(targets.w, <<"info", "too_many", upd.target>>),
          raised |-> FALSE]
    ELSE [w |-> UpdateEach(targets.w, script, targets.val, upd.changes, original),
          raised |-> FALSE]

\* the loop over pending.tasks_updates (lines 987-1077): [w, raised]; the
\* resolve of line 988 is outside every try block
RECURSIVE UpdateAll(_, _, _, _)
UpdateAll(w, updates, original, script) ==
    IF updates = <<>> THEN [w |-> w, raised |-> FALSE]
    ELSE LET Rest(x) ==
                 IF x.raised THEN x
                 ELSE UpdateAll(x.w, Tail(updates), original, script)
         IN Rest(UpdateTargets(
                    resolve_targets(Head(updates).target, w, script, original),
                    Head(updates), original, script))

\* q.message.delete(): the preview whose button was pressed is gone
DeleteMessage(m) == [m EXCEPT !.chat.previews = @ - 1]

\* lines 1090-1106: send the stored answer, clear the state, delete the preview
FinishConfirm(m) ==
    DeleteMessage([(IF m.ud.query_preview_answer # <<>>
                    THEN Reply(m, "answer", m.ud.query_preview_answer, "none")
                    ELSE m)
                   EXCEPT !.ud.pending_result = NoResult,
                          !.ud.original_input = <<>>])

\* the Store part of confirm (lines 846-1089): [m, raised]
\* lines 898-964: the reminders, after the new tasks a = [w, ids]; the
\* first created ID, if any, is the target of every reminder
RemindPending(a, reminders, original, script) ==
    IF reminders = <<>> THEN a.w
    ELSE RemindAll(a.w, reminders, IF a.ids = <<>> THEN <<>> ELSE a.ids[1],
                   original, script)

\* lines 978-1089: refresh the cache, apply the updates, send their summary
UpdatePending(m1, updates, original, script) ==
    LET c == refresh_active_tasks_cache(m1.w, script)
        Summed(d) ==
            [m |-> IF ~d.raised /\ HasInfo(d.w, Len(c.trace))
                   THEN Reply([m1 EXCEPT !.w = d.w], "updated_summary", <<>>, "none")
                   ELSE [m1 EXCEPT !.w = d.w],
             raised |-> d.raised]
    IN Summed(UpdateAll(c, updates, original, script))

ApplyPending(m, pending, inp) ==
    LET \* lines 966-977: the summary of what was created
        Created(b) ==
            IF HasInfo(b, Len(m.w.trace))
            THEN Reply([m EXCEPT !.w = b], "created_summary", <<>>, "none")
            ELSE [m EXCEPT !.w = b]
    IN UpdatePending(
          Created(RemindPending(
                     CreateAll(m.w, pending.tasks_new, <<>>, m.ud.original_input,
                               inp.script),
                     pending.reminders, m.ud.original_input, inp.script)),
          pending.tasks_updates, m.ud.original_input, inp.script)

\* the preview:confirm branch
Confirm(m, inp) ==
    LET Finished(applied) ==
            IF applied.raised THEN applied.m ELSE FinishConfirm(applied.m)
    IN IF m.ud.pending_result = NoResult
       THEN Reply(m, "no_data", <<>>, "none")
       ELSE IF ~env.todoist THEN FinishConfirm(m)
       ELSE Finished(ApplyPending(m, m.ud.pending_result, inp))

\* on_preview_callback for the button data; cancel and confirm write the
\* key awaiting_edit_input, which nothing reads
on_preview_callback(m0, data, inp) ==
    LET m == [touch_activity(m0) EXCEPT !.ud.session_expired = FALSE]
        Pressed ==
            CASE data = "cancel" ->
                    DeleteMessage(Reply([m EXCEPT !.ud.pending_result = NoResult],
                                        "cancelled", <<>>, "none"))
              [] data = "edit" ->
                    Reply([m EXCEPT !.ud.awaiting_refine_input = TRUE],
                          "edit_prompt", <<>>, "none")
              [] data = "confirm" -> Confirm(m, inp)
              [] OTHER -> m
    IN IF ~check_user_access THEN Refused(m0) ELSE Pressed

(***************************************************************************)
(* The inputs the environment can send                                     *)
(***************************************************************************)
TextA == <<"a">>

TextQ == <<"q">>

\* a new task with the given title and nothing else
Task(title) ==
    [title |-> title, body |-> <<>>, source_text |-> <<>>, labels |-> <<>>,
     direction |-> <<>>, priority |-> "none", deadline |-> <<>>]

NoChanges ==
    [status |-> "none", title |-> <<>>, description |-> <<>>,
     priority |-> "none", labels_add |-> <<>>, labels_remove |-> <<>>,
     deadline |-> <<>>]

Update(target, changes) == [target |-> target, changes |-> changes]

\* a reminder at an absolute time; offset is the relative time of the schema
Reminder(title, at) == [title |-> title, at |-> at, offset |-> <<>>]

RNew == [EmptyResult EXCEPT !.tasks_new = <<Task(TextA)>>]

RAsk == [EmptyResult EXCEPT !.clarifying_questions = <<"project">>]

RQuery == [EmptyResult EXCEPT !.intents = <<[type |-> "query", question |-> TextQ]>>]

RUpd ==
    [EmptyResult EXCEPT
        !.tasks_updates = <<Update(TextA, [NoChanges EXCEPT !.status = "done"])>>]

SessionResults == {EmptyResult, RNew, RAsk, RQuery}

FailureKinds == {"error", "nodata", "malformed", "badschema"}

\* what the session machine hears from the Oracle: one model that raises,
\* answers with text that is not JSON, or answers with a result
Responses(results) ==
    {Resp(k, EmptyResult) : k \in {"error", "malformed"}}
        \cup {Resp("ok", r) : r \in results}

RespSeqs(results) == {<<r>> : r \in Responses(results)}

\* the response of the validator model
ValidatorResponses ==
    IF env.validator THEN Responses({RNew}) ELSE {Resp("nodata", EmptyResult)}

\* the outcomes of the Store calls of one handler run of the session
\* machine: every call succeeds when the Store is configured
Scripts == {<<>>}

Inputs(results) ==
    [script : Scripts, resps : RespSeqs(results), vresp : ValidatorResponses,
     ans : BOOLEAN]

\* the most entities the model lets the Store create
MaxId == 2

\* the Store has IDs left for everything a confirm of the pending result
\* can create
CanCreate ==
    IF user_data.pending_result = NoResult THEN TRUE
    ELSE store.next_id + Len(user_data.pending_result.tasks_new)
             + Len(user_data.pending_result.reminders) <= MaxId + 1

E1 ==
    [id |-> <<"1">>, content |-> TextA, description |-> <<>>, labels |-> <<>>,
     project_id |-> <<>>, priority |-> <<"1">>, due |-> <<>>]

(***************************************************************************)
(* The session machine: one user's events in any order                     *)
(***************************************************************************)
\* Job handles carry no data of their own, so the queue is kept up to
\* renaming: the jobs user_data has lost are 1..k, the one it remembers k + 1
Untracked(m) == m.jobs \ {m.ud.timeout_job}

\* the handler has run: its machine becomes the state, out is what the
\* observer notes of the run
Settle(m, event, out) ==
    /\ m.chat.previews <= MaxPreviews
    /\ Len(m.ud.original_input) <= MaxInputLen
    /\ user_data' =
          [m.ud EXCEPT !.timeout_job =
              IF @ = 0 THEN 0 ELSE Cardinality(Untracked(m)) + 1]
    /\ jobs' = 1..(Cardinality(Untracked(m))
                    + (IF m.ud.timeout_job \in m.jobs THEN 1 ELSE 0))
    /\ chat' = m.chat
    /\ cache' = m.w.cache
    /\ store' = m.w.store
    /\ created_task_ids' = m.w.buf
    /\ now' = m.w.now
    /\ trace' = m.w.trace
    /\ call_in' = event
    /\ call_out' = out
    /\ UNCHANGED env

Commit(m, event) == Settle(m, event, None)

\* the event a handler was run for, and whether it found the session expired
Event(name, data) ==
    [event |-> name, data |-> data, expired |-> user_data.session_expired]

NoEvent == [event |-> "none", data |-> <<>>, expired |-> FALSE]

HandleText ==
    /\ CanTouch
    /\ \E text \in {TextA, <<" ">>} : \E inp \in Inputs(SessionResults) :
          Commit(handle_text(Machine, text, inp), Event("text", text))

HandleVoice ==
    /\ CanTouch
    /\ \E transcript \in {TextA} : \E inp \in Inputs(SessionResults) :
          Commit(handle_voice(Machine, transcript, inp), Event("voice", transcript))

PreviewCallback ==
    /\ CanTouch
    /\ CanCreate
    /\ chat.previews > 0
    /\ \E data \in {"confirm", "edit", "cancel"} :
       \E inp \in Inputs({EmptyResult}) :
          Commit(on_preview_callback(Machine, data, inp), Event("preview", data))

ClarifyCallback ==
    /\ CanTouch
    /\ chat.project_kb
    /\ \E chosen \in {<<"w">>} : \E inp \in Inputs(SessionResults) :
          Commit(on_clarify_callback(Machine, chosen, inp), Event("clarify", chosen))

SessionTimeout ==
    \E j \in jobs : Commit(on_session_timeout(Machine, j), Event("timeout", <<>>))

Configs ==
    [allowed : {0}, job_queue : BOOLEAN, todoist : BOOLEAN, validator : {FALSE}, tz : {0},
     dst : {FALSE}, today : {1}, fuzzy : {FALSE}, projects : {{<<<<"w">>, <<"5">>>>}}]

Init ==
    /\ env \in Configs
    /\ user_data = EmptyUserData
    /\ jobs = {}
    /\ cache = [items |-> <<>>, ts |-> 0, fresh |-> TRUE]
    /\ created_task_ids = <<>>
    /\ store = [tasks |-> <<E1>>, closed |-> <<>>, next_id |-> 2]
    /\ chat = [previews |-> 0, project_kb |-> FALSE]
    /\ now = Ttl
    /\ trace = <<>>
    /\ call_in = NoEvent
    /\ call_out = None

Next ==
    \/ HandleText
    \/ HandleVoice
    \/ PreviewCallback
    \/ ClarifyCallback
    \/ SessionTimeout

Spec == Init /\ [][Next]_vars

(***************************************************************************)
(* Properties of the session machine                                       *)
(***************************************************************************)
\* the conversation fields of user_data: everything but the job handle
Conversation(ud) == [ud EXCEPT !.timeout_job = 0]

Replies(tr) == SelectSeq(tr, LAMBDA e : e[1] = "reply")

Calls(tr, name) == SelectSeq(tr, LAMBDA e : e[1] = name)

\* C1: after any sequence of events and timer firings at most one
\* inactivity callback is pending for the user.
C1_AtMostOnePendingCallback == Cardinality(jobs) <= 1

\* C2: when the inactivity callback fires it clears both awaiting flags,
\* marks the session expired and sends one notification, and it leaves
\* pending_result, original_input and query_preview_answer as they were.
C2_TimeoutEffect ==
    [][call_in'.event = "timeout" =>
          /\ ~user_data'.awaiting_clarifications
          /\ ~user_data'.awaiting_refine_input
          /\ user_data'.session_expired
          /\ user_data'.pending_result = user_data.pending_result
          /\ user_data'.original_input = user_data.original_input
          /\ user_data'.query_preview_answer = user_data.query_preview_answer
          /\ trace' = <<<<"reply", "session_expired", <<>>, "none">>>>]_vars

\* the callback has fired while a result was being previewed
C2_Witness ==
    /\ call_in.event = "timeout"
    /\ user_data.pending_result # NoResult
    /\ user_data.original_input # <<>>
    /\ user_data.session_expired

\* the machine a handler would find had the user never been seen before
FreshMachine == [Machine EXCEPT !.ud = EmptyUserData]

\* the machine a handler would find had the session not expired
ResumedMachine == [Machine EXCEPT !.ud.session_expired = FALSE]

\* C3: in an expired session a text or voice message leaves the conversation
\* state that the same message leaves in a session with no state at all,
\* whereas a preview button leaves the state it would leave had the session
\* not expired, and a confirm still creates every new task of the retained
\* pending result.
C3_ExpiredInput ==
    [][user_data.session_expired =>
          /\ call_in'.event = "text" =>
                \E inp \in Inputs(SessionResults) :
                    Conversation(user_data') =
                        Conversation(handle_text(FreshMachine, call_in'.data, inp).ud)
          /\ call_in'.event = "voice" =>
                \E inp \in Inputs(SessionResults) :
                    Conversation(user_data') =
                        Conversation(handle_voice(FreshMachine, call_in'.data, inp).ud)
          /\ call_in'.event = "preview" =>
                /\ ~user_data'.session_expired
                /\ \E inp \in Inputs({EmptyResult}) :
                      Conversation(user_data') =
                          Conversation(on_preview_callback(ResumedMachine,
                                                           call_in'.data, inp).ud)
                /\ (/\ call_in'.data = "confirm"
                    /\ env.todoist
                    /\ user_data.pending_result # NoResult) =>
                      /\ Len(Calls(trace', "create_task"))
                            = Len(user_data.pending_result.tasks_new)
                      /\ user_data'.pending_result = NoResult]_vars

\* confirm was pressed in an expired session and the retained task was created
C3_Witness ==
    /\ call_in.event = "preview"
    /\ call_in.data = "confirm"
    /\ call_in.expired
    /\ Len(Calls(trace, "create_task")) = 1
    /\ user_data.pending_result = NoResult

\* C4: once a confirm or cancel press has been handled the session is idle:
\* no pending result and neither awaiting flag set.
C4_IdleAfterConfirmOrCancel ==
    (call_in.event = "preview" /\ call_in.data \in {"confirm", "cancel"}) =>
        /\ user_data.pending_result = NoResult
        /\ ~user_data.awaiting_clarifications
        /\ ~user_data.awaiting_refine_input

\* C5: a result that is only a query with a non-empty answer is answered
\* with the answer text alone: no buttons, and it is never stored as the
\* pending result.
C5_QueryOnlyAnswer ==
    /\ \A i \in 1..Len(trace) :
          (trace[i][1] = "reply" /\ trace[i][2] = "answer") => trace[i][4] = "none"
    /\ IF user_data.pending_result = NoResult THEN TRUE
       ELSE ~IsQueryOnly(user_data, user_data.pending_result)

(***************************************************************************)
(* The refine path on its own: a preview is standing, edit was pressed,    *)
(* and the Oracle answers the refine and validate calls in every way       *)
(***************************************************************************)
\* every way one model can answer
AllResponses ==
    {Resp(k, EmptyResult) : k \in FailureKinds}
        \cup {Resp("ok", r) : r \in {RNew, RUpd}}

\* the most models OPENROUTER_MODEL names in the model
MaxModels == 2

RefineCalls ==
    [current : {RNew, RUpd},
     resps : UNION {[1..n -> AllResponses] : n \in 1..MaxModels},
     vresp : AllResponses]

NoCall == [op |-> "none", val |-> NoResult]

InitRefine ==
    /\ env \in [allowed : {0}, job_queue : {FALSE}, todoist : {FALSE}, validator : BOOLEAN,
                tz : {0}, dst : {FALSE}, today : {1}, fuzzy : {FALSE}, projects : {{}}]
    /\ call_in \in RefineCalls
    /\ user_data = [EmptyUserData EXCEPT !.pending_result = call_in.current,
                                         !.original_input = TextA,
                                         !.awaiting_refine_input = TRUE]
    /\ jobs = {}
    /\ cache = [items |-> <<>>, ts |-> 0, fresh |-> TRUE]
    /\ created_task_ids = <<>>
    /\ store = [tasks |-> <<E1>>, closed |-> <<>>, next_id |-> 2]
    /\ chat = [previews |-> 1, project_kb |-> FALSE]
    /\ now = Ttl
    /\ trace = <<>>
    /\ call_out = NoCall

\* the inputs of a handler run in which the Oracle answers as call_in says
RefineInputs ==
    [script |-> <<>>, resps |-> call_in.resps, vresp |-> call_in.vresp,
     ans |-> TRUE]

\* a handler has refined the pending result
Refined(m, op) ==
    /\ call_out.op = "none"
    /\ user_data' = m.ud
    /\ chat' = m.chat
    /\ trace' = m.w.trace
    /\ call_out' = [op |-> op, val |-> m.ud.pending_result]
    /\ UNCHANGED <<env, jobs, cache, created_task_ids, store, now, call_in>>

RefineByText == Refined(handle_text(Machine, TextA, RefineInputs), "text")

RefineByVoice == Refined(handle_voice(Machine, TextA, RefineInputs), "voice")

\* llm.refine_tasks on its own
CallRefine ==
    /\ call_out.op = "none"
    /\ call_out' = [op |-> "refine",
                    val |-> refine_tasks(call_in.current, call_in.resps)]
    /\ UNCHANGED <<env, user_data, jobs, cache, created_task_ids, store, chat,
                   now, trace, call_in>>

\* llm.validate_extraction on its own
CallValidate ==
    /\ call_out.op = "none"
    /\ call_out' = [op |-> "validate",
                    val |-> validate_extraction(call_in.current, call_in.vresp)]
    /\ UNCHANGED <<env, user_data, jobs, cache, created_task_ids, store, chat,
                   now, trace, call_in>>

NextRefine ==
    \/ RefineByText
    \/ RefineByVoice
    \/ CallRefine
    \/ CallValidate

SpecRefine == InitRefine /\ [][NextRefine]_vars

\* every model raised or was unavailable
AllModelsFail(resps) ==
    \A i \in 1..Len(resps) : resps[i].kind \in {"error", "nodata"}

\* the response is not JSON, or JSON the schema rejects
IsMalformed(resp) == resp.kind \in {"malformed", "badschema"}

\* C6 as stated: if every refine attempt fails, the pending result after the
\* refine input equals the pending result before it.
C6_PendingUnchanged ==
    (call_out.op \in {"text", "voice"} /\ AllModelsFail(call_in.resps)) =>
        user_data.pending_result = call_in.current

\* C6 amended: if every refine attempt fails, refine returns the current
\* result unchanged and the pending result after the refine input is what
\* validation makes of it: the pending result before it whenever the
\* validator is disabled or gives no answer.
C6_RefineKeepsCurrent ==
    AllModelsFail(call_in.resps) =>
        /\ call_out.op = "refine" => call_out.val = call_in.current
        /\ call_out.op \in {"text", "voice"} =>
              /\ user_data.pending_result
                    = validate_extraction(call_in.current, call_in.vresp)
              /\ (~env.validator \/ ~Answers(call_in.vresp)) =>
                    user_data.pending_result = call_in.current

\* two models failed, the validator raised, and the preview is unchanged
C6_Witness ==
    /\ call_out.op = "text"
    /\ Len(call_in.resps) = MaxModels
    /\ AllModelsFail(call_in.resps)
    /\ env.validator
    /\ call_in.vresp.kind = "error"
    /\ user_data.pending_result = call_in.current
    /\ ~user_data.awaiting_refine_input

\* C7: a malformed response to refine or validate is discarded: refine
\* returns the current result and validate returns the candidate.
C7_MalformedDiscarded ==
    /\ (/\ call_out.op = "refine"
        /\ \A i \in 1..Len(call_in.resps) : IsMalformed(call_in.resps[i]))
            => call_out.val = call_in.current
    /\ (call_out.op = "validate" /\ IsMalformed(call_in.vresp))
            => call_out.val = call_in.current

(***************************************************************************)
(* Confirm against a Store whose calls can fail one by one                 *)
(***************************************************************************)
TextB == <<"b">>

\* rename "a" to "b", then close what is called "a"
RTwoUpd ==
    [EmptyResult EXCEPT
        !.tasks_updates =
            <<Update(TextA, [NoChanges EXCEPT !.title = TextB]),
              Update(TextA, [NoChanges EXCEPT !.status = "done"])>>]

\* a new task and an update of what is called "a"
RNewUpd ==
    [EmptyResult EXCEPT
        !.tasks_new = <<Task(TextA)>>,
        !.tasks_updates =
            <<Update(TextA, [NoChanges EXCEPT !.description = TextB])>>]

\* a reminder about "a"
RRem == [EmptyResult EXCEPT !.reminders = <<Reminder(TextA, <<"@", "1", "T", "0", "9", "Z">>)>>]

ApplyResults == {RNew, RUpd, RTwoUpd, RNewUpd, RRem}

\* the latest time of the model's clock
MaxNow == 4

StoreUp == [i \in 1..ScriptLen |-> "ok"]

ApplyInputs ==
    [script : [1..ScriptLen -> {"ok", "fail"}],
     resps : {<<Resp("ok", r)>> : r \in ApplyResults},
     vresp : {Resp("nodata", EmptyResult)},
     ans : {TRUE}]

InitApply ==
    /\ env \in [allowed : {0}, job_queue : {FALSE}, todoist : {TRUE}, validator : {FALSE},
                tz : {0}, dst : {FALSE}, today : {1}, fuzzy : {FALSE}, projects : {{}}]
    /\ user_data \in {[EmptyUserData EXCEPT !.pending_result = r,
                                            !.original_input = TextB]
                        : r \in ApplyResults}
    /\ jobs = {}
    /\ store = [tasks |-> <<E1>>, closed |-> <<>>, next_id |-> 2]
    /\ cache \in {[items |-> <<>>, ts |-> 0, fresh |-> TRUE],
                  [items |-> store.tasks, ts |-> Ttl, fresh |-> TRUE]}
    /\ created_task_ids = <<>>
    /\ chat = [previews |-> 1, project_kb |-> FALSE]
    /\ now = Ttl
    /\ trace = <<>>
    /\ call_in = NoEvent
    /\ call_out = None

\* a button of the standing preview is pressed
ApplyPress ==
    /\ CanCreate
    /\ chat.previews > 0
    /\ \E data \in {"confirm", "cancel"} : \E inp \in ApplyInputs :
          Commit(on_preview_callback(Machine, data, inp), Event("preview", data))

\* a later message brings the next result to preview
ApplyText ==
    /\ chat.previews = 0
    /\ now < MaxNow
    /\ \E inp \in ApplyInputs :
          /\ inp.script = StoreUp
          /\ Commit(handle_text([Machine EXCEPT !.w.now = now + 1], TextB, inp),
                    Event("text", TextB))

\* time passes
Tick ==
    /\ now < MaxNow
    /\ now' = now + 1
    /\ UNCHANGED <<env, user_data, jobs, cache, created_task_ids, store, chat,
                   trace, call_in, call_out>>

NextApply ==
    \/ ApplyPress
    \/ ApplyText
    \/ Tick

SpecApply == InitApply /\ [][NextApply]_vars

\* C8: after a successful Store mutation the cache is refreshed before the
\* next resolve, so no resolve reads a snapshot fetched before the mutation.
C8_NoStaleResolve ==
    \A i \in 1..Len(trace) : trace[i] # <<"resolve", "stale">>

\* C9: the confirm handler runs to completion whatever Store calls fail: it
\* never aborts, and the pending result is cleared at the end.
C9_ConfirmCompletes ==
    (call_in.event = "preview" /\ call_in.data = "confirm") =>
        /\ \A i \in 1..Len(trace) : trace[i] # <<"raise">>
        /\ user_data.pending_result = NoResult

(***************************************************************************)
(* The resolver on its own: one call on a cached snapshot                  *)
(***************************************************************************)
Entity(id, content, due) ==
    [id |-> id, content |-> content, description |-> <<>>, labels |-> <<>>,
     project_id |-> <<>>, priority |-> <<"1">>, due |-> due]

X7 == Entity(<<"7">>, TextB, <<>>)

\* its content carries the digit 7, its ID does not
X1 == Entity(<<"1">>, <<"a", "7">>, <<>>)

X2 == Entity(<<"2">>, TextA, <<"@", "1">>)

Snapshots == {<<X7>>, <<X1>>, <<X1, X7>>, <<X7, X1>>, <<X1, X2>>, <<X2, X7, X1>>}

\* "7", " 7 "
BareTargets == {<<"7">>, <<" ", "7", " ">>}

\* "a?id=7", "h://x?id=7", "h://x/app/task/7?id=1"
QueryTargets == {<<"a", "?", "i", "d", "=", "7">>, <<"h", ":", "/", "/", "x", "?", "i", "d", "=", "7">>, <<"h", ":", "/", "/", "x", "/", "a", "p", "p", "/", "t", "a", "s", "k", "/", "7", "?", "i", "d", "=", "1">>}

\* "h://x/app/task/7", "x/task/7"
PathTargets == {<<"h", ":", "/", "/", "x", "/", "a", "p", "p", "/", "t", "a", "s", "k", "/", "7">>, <<"x", "/", "t", "a", "s", "k", "/", "7">>}

\* "h://x/task/7", "/task/7": a path of two segments
ShortPathTargets == {<<"h", ":", "/", "/", "x", "/", "t", "a", "s", "k", "/", "7">>, <<"/", "t", "a", "s", "k", "/", "7">>}

\* "last", "a", "9", ""
OtherTargets == {<<"l", "a", "s", "t">>, <<"a">>, <<"9">>, <<>>}

ResolveCalls ==
    [target : BareTargets \cup QueryTargets \cup PathTargets
                \cup ShortPathTargets \cup OtherTargets,
     fallback : {<<>>, TextA, <<"1">>}]

InitResolve ==
    /\ env \in [allowed : {0}, job_queue : {FALSE}, todoist : {TRUE}, validator : {FALSE},
                tz : {0}, dst : {FALSE}, today : {1}, fuzzy : BOOLEAN, projects : {{}}]
    /\ call_in \in ResolveCalls
    /\ cache \in {[items |-> snap, ts |-> Ttl, fresh |-> TRUE] : snap \in Snapshots}
    /\ store = [tasks |-> cache.items, closed |-> <<>>, next_id |-> 9]
    /\ created_task_ids \in {<<>>, <<<<"1">>>>, <<<<"7">>, <<"2">>>>}
    /\ user_data = EmptyUserData
    /\ jobs = {}
    /\ chat = [previews |-> 0, project_kb |-> FALSE]
    /\ now = Ttl
    /\ trace = <<>>
    /\ call_out = NoCall

\* _resolve_targets(target, fallback_text=fallback) on the cached snapshot
CallResolve ==
    /\ call_out.op = "none"
    /\ LET r == resolve_targets(call_in.target, World, <<>>, call_in.fallback)
       IN /\ call_out' = [op |-> "resolve", val |-> r.val]
          /\ cache' = r.w.cache
          /\ trace' = r.w.trace
    /\ UNCHANGED <<env, user_data, jobs, created_task_ids, store, chat, now,
                   call_in>>

\* _id_from_url_or_text(target)
CallIdFromText ==
    /\ call_out.op = "none"
    /\ call_out' = [op |-> "id", val |-> id_from_url_or_text(call_in.target)]
    /\ UNCHANGED <<env, user_data, jobs, cache, created_task_ids, store, chat,
                   now, trace, call_in>>

NextResolve ==
    \/ CallResolve
    \/ CallIdFromText

SpecResolve == InitResolve /\ [][NextResolve]_vars

EndsWith(s, suffix) ==
    Len(s) >= Len(suffix) /\ SubSeq(s, Len(s) - Len(suffix) + 1, Len(s)) = suffix

\* the target is the bare number n, or ends with ?id=<n> or /task/<n>
NamesId(target, n) ==
    \/ strip(target) = n
    \/ EndsWith(target, <<"?", "i", "d", "=">> \o n)
    \/ EndsWith(target, <<"/", "t", "a", "s", "k", "/">> \o n)

\* C10 as stated: a target that is a bare number, or a URL carrying ?id=<n>
\* or /task/<n>, equal to the ID of a cached entity resolves to exactly
\* that entity.
C10_IdTargetResolves ==
    call_out.op = "resolve" =>
        \A i \in 1..Len(cache.items) :
            NamesId(call_in.target, cache.items[i].id) =>
                call_out.val = <<cache.items[i]>>

\* the ID a target names, read off the URL's parts: the bare number, else
\* the first id parameter of the query, else the last segment of a path of
\* at least three segments whose last but one is "task"
NamedId(target) ==
    LET s == strip(target)
        u == urlparse(s)
        parts == NonEmpty(SplitOn(u.path, "/"))
    IN IF isdigit(s) THEN s
       ELSE IF isdigit(QsFirst(u.query, <<"i", "d">>))
       THEN QsFirst(u.query, <<"i", "d">>)
       ELSE IF Len(parts) >= 3 /\ parts[Len(parts) - 1] = <<"t", "a", "s", "k">>
       THEN parts[Len(parts)]
       ELSE <<>>

\* C10 amended: a target that is a bare number, or a URL whose query has
\* id=<n>, or (without such a parameter) whose path has at least three
\* segments ending in task/<n>, with n the ID of a cached entity, resolves
\* to exactly that entity whatever the other tiers would match.
C10_IdTierShortCircuits ==
    call_out.op = "resolve" =>
        \A i \in 1..Len(cache.items) :
            NamedId(call_in.target) = cache.items[i].id =>
                call_out.val = <<cache.items[i]>>

\* a task URL resolved to entity 7 alone although another cached entity has
\* a 7 in its text and the created-ID buffer ends with another ID
C10_Witness ==
    /\ call_out.op = "resolve"
    /\ call_in.target \in PathTargets
    /\ cache.items = <<X2, X7, X1>>
    /\ created_task_ids # <<>>
    /\ call_out.val = <<X7>>

(***************************************************************************)
(* The text tiers of the resolver: "last", substring with the relative-day *)
(* filter, fuzzy fallback                                                  *)
(***************************************************************************)
WordTodayEn == <<"t", "o", "d", "a", "y">>

WordTomorrowRu == <<"ze", "a", "v", "t", "r", "a">>

\* an entity called "last"
L1 == Entity(<<"1">>, <<"l", "a", "s", "t">>, <<>>)

\* entities called "today": due today, without due, due tomorrow, with a due
\* value that is no date
D1 == Entity(<<"2">>, WordTodayEn, <<"@", "1">>)

D2 == Entity(<<"3">>, WordTodayEn, <<>>)

D3 == Entity(<<"4">>, WordTodayEn, <<"@", "2">>)

D4 == Entity(<<"5">>, WordTodayEn, <<"x">>)

\* an entity called "zavtra", due tomorrow
D5 == Entity(<<"9">>, WordTomorrowRu, <<"@", "2">>)

\* entities that "abcd" matches only fuzzily: "abc" as the content, "abc" as
\* the description, "ab" as the content
F1 == Entity(<<"6">>, <<"a", "b", "c">>, <<>>)

F2 == [Entity(<<"7">>, <<>>, <<>>) EXCEPT !.description = <<"a", "b", "c">>]

F3 == Entity(<<"8">>, <<"a", "b">>, <<>>)

MatchSnapshots ==
    {<<L1, D1>>, <<D1>>, <<D2, D1, D3>>, <<D1, D4>>, <<D5, D3>>,
     <<F3, F2, F1>>, <<F2, F1>>, <<F1, F3>>}

\* "last", " LasT ", "today", "today a", "zavtra", "a", "abcd"
MatchTargets ==
    {<<"l", "a", "s", "t">>, <<" ", "L", "a", "s", "T", " ">>, WordTodayEn,
     WordTodayEn \o <<" ", "a">>, WordTomorrowRu, TextA, <<"a", "b", "c", "d">>}

MatchCalls == [target : MatchTargets, fallback : {<<>>, <<"2">>}]

InitMatch ==
    /\ env \in [allowed : {0}, job_queue : {FALSE}, todoist : {TRUE}, validator : {FALSE},
                tz : {-1, 0, 1}, dst : {FALSE}, today : {1}, fuzzy : BOOLEAN, projects : {{}}]
    /\ call_in \in MatchCalls
    /\ cache \in {[items |-> snap, ts |-> Ttl, fresh |-> TRUE] : snap \in MatchSnapshots}
    /\ store = [tasks |-> cache.items, closed |-> <<>>, next_id |-> 9]
    /\ created_task_ids \in {<<>>, <<<<"1">>>>, <<<<"1">>, <<"2">>>>}
    /\ user_data = EmptyUserData
    /\ jobs = {}
    /\ chat = [previews |-> 0, project_kb |-> FALSE]
    /\ now = Ttl
    /\ trace = <<>>
    /\ call_out = NoCall

SpecMatch == InitMatch /\ [][NextResolve]_vars

\* the call was a resolve that no ID decided: neither the target nor the
\* fallback text names one
NoIdResolve ==
    /\ call_out.op = "resolve"
    /\ NamedId(call_in.target) = <<>>
    /\ NamedId(call_in.fallback) = <<>>

\* the target means "last"
MeansLast(target) == strip(lower(target)) \in WordLast

\* the cached entities with the given ID
WithId(tid) == SelectSeq(cache.items, LAMBDA t : t.id = tid)

\* C11: a target meaning "last" (in any case, with no ID in target or
\* fallback) resolves to the cached entity whose ID is the tail of the
\* created-ID buffer, and to nothing when the buffer is empty; the substring
\* and fuzzy tiers do not contribute.
C11_LastIsBufferTail ==
    (NoIdResolve /\ MeansLast(call_in.target)) =>
        call_out.val =
            IF created_task_ids = <<>> THEN <<>>
            ELSE WithId(created_task_ids[Len(created_task_ids)])

\* the relative day the query names: the local date it stands for, or -1
RelativeDay(q) ==
    IF Contains(q, WordTodayEn) \/ Contains(q, <<"s", "e", "g", "o", "d", "n", "y", "a">>)
    THEN env.today
    ELSE IF Contains(q, WordTomorrowRu)
            \/ Contains(q, <<"t", "o", "m", "o", "r", "r", "o", "w">>)
    THEN env.today + 1
    ELSE -1

\* the due value is a date, and it is the day d
DueOn(due, d) ==
    /\ Len(due) >= 2
    /\ due[1] = "@"
    /\ due[2] \in DigitChars
    /\ DigitVal(due[2]) = d

\* C12: when the query holds a relative-day keyword, every entity resolve
\* returns has a parsable due date that is the local date the keyword
\* stands for (entities without due are left out), in every home timezone
\* and for fuzzy results too.
C12_RelativeDayFilter ==
    (/\ NoIdResolve
     /\ ~MeansLast(call_in.target)
     /\ RelativeDay(lower(call_in.target)) # -1) =>
        \A i \in 1..Len(call_out.val) :
            DueOn(call_out.val[i].due, RelativeDay(lower(call_in.target)))

\* the substring tier of a query: the cached entities, in cache order, whose
\* searchable text holds q and which the date filter lets through
SubstringTier(q) ==
    SelectSeq(cache.items,
              LAMBDA t : Contains(lower(Haystack(t)), q)
                         /\ ~DueExcludes(t, DueFilter(q)))

\* val holds exactly the cached entities scoring at least the minimum
\* against q, each once, best score first
IsFuzzyResult(val, q) ==
    /\ \A i \in 1..Len(cache.items) :
          ScoreAtLeast(FuzzyScore(cache.items[i], q), MinScore)
              <=> \E j \in 1..Len(val) : val[j] = cache.items[i]
    /\ \A j \in 1..Len(val) : \E i \in 1..Len(cache.items) : val[j] = cache.items[i]
    /\ \A j, k \in 1..Len(val) : j # k => val[j] # val[k]
    /\ \A j \in 1..(Len(val) - 1) :
          ScoreGeq(FuzzyScore(val[j], q), FuzzyScore(val[j + 1], q))

\* the call was a resolve decided by the text tiers
TextResolve ==
    /\ NoIdResolve
    /\ ~(MeansLast(call_in.target) /\ created_task_ids # <<>>)

\* C13 as stated: the fuzzy tier runs only when the substring tier matches
\* nothing, and then returns exactly the entities scoring at least the
\* minimum, best first; otherwise the result is the substring matches in
\* cache order.
C13_FuzzyOnlyAfterSubstring ==
    TextResolve =>
        IF SubstringTier(lower(call_in.target)) # <<>>
        THEN call_out.val = SubstringTier(lower(call_in.target))
        ELSE IsFuzzyResult(call_out.val, lower(call_in.target))

\* C13 amended: as C13 when the fuzzy scorer is available; without it the
\* fuzzy tier returns nothing.
C13_FuzzyWhenAvailable ==
    TextResolve =>
        IF SubstringTier(lower(call_in.target)) # <<>>
        THEN call_out.val = SubstringTier(lower(call_in.target))
        ELSE IF env.fuzzy THEN IsFuzzyResult(call_out.val, lower(call_in.target))
        ELSE call_out.val = <<>>

\* "abcd" is in no entity's text; the two entities scoring 86 and 75 came
\* back best first, against the cache order, and the one scoring 67 did not
C13_Witness ==
    /\ call_out.op = "resolve"
    /\ env.fuzzy
    /\ call_in.target = <<"a", "b", "c", "d">>
    /\ call_in.fallback = <<>>
    /\ cache.items = <<F3, F2, F1>>
    /\ call_out.val = <<F1, F2>>

(***************************************************************************)
(* Confirm with several matches and several new tasks, and the created-ID  *)
(* buffer over a sequence of confirms                                      *)
(***************************************************************************)
\* the highest ID the model lets the Store give out
MaxEntities == 5

\* more entities with an "a" in their text: "ab", "ca"
A2 == Entity(<<"2">>, <<"a", "b">>, <<>>)

A3 == Entity(<<"3">>, <<"c", "a">>, <<>>)

TextZ == <<"z">>

\* two new tasks, "a" and "b"
RTwoNew == [EmptyResult EXCEPT !.tasks_new = <<Task(TextA), Task(TextB)>>]

\* a reminder about "z", which no entity is called
RRemNew ==
    [EmptyResult EXCEPT
        !.reminders = <<Reminder(TextZ, <<"@", "1", "T", "0", "9", "Z">>)>>]

ConfirmResults == {RTwoNew, RUpd, RRemNew}

\* the outcomes of the Store calls of one confirm: each of the first two
\* calls (the creates of two new tasks) succeeds or raises and the later
\* calls succeed; or every call succeeds and the response to the first
\* carries no id; or every call raises
ConfirmScripts ==
    {[i \in 1..ScriptLen |-> IF i <= Len(first) THEN first[i] ELSE "ok"]
        : first \in [1..Len(RTwoNew.tasks_new) -> {"ok", "fail"}]}
        \cup {[StoreUp EXCEPT ![1] = "noid"], [i \in 1..ScriptLen |-> "fail"]}

ConfirmInputs ==
    [script : ConfirmScripts,
     resps : {<<Resp("ok", r)>> : r \in ConfirmResults},
     vresp : {Resp("nodata", EmptyResult)},
     ans : {TRUE}]

InitConfirm ==
    /\ env \in [allowed : {0}, job_queue : {FALSE}, todoist : {TRUE}, validator : {FALSE},
                tz : {0}, dst : {FALSE}, today : {1}, fuzzy : {FALSE}, projects : {{}}]
    /\ user_data \in {[EmptyUserData EXCEPT !.pending_result = r,
                                            !.original_input = TextB]
                        : r \in ConfirmResults}
    /\ jobs = {}
    /\ store \in {[tasks |-> snap, closed |-> <<>>, next_id |-> Len(snap) + 1]
                    : snap \in {<<E1, A2>>, <<E1, A2, A3>>}}
    /\ cache = [items |-> store.tasks, ts |-> Ttl, fresh |-> TRUE]
    /\ created_task_ids \in {<<>>, <<<<"1">>>>}
    /\ chat = [previews |-> 1, project_kb |-> FALSE]
    /\ now = Ttl
    /\ trace = <<>>
    /\ call_in = NoEvent
    /\ call_out = None

\* the Store has IDs left for everything a confirm of the pending result
\* can create
HasIdsLeft ==
    IF user_data.pending_result = NoResult THEN TRUE
    ELSE store.next_id + Len(user_data.pending_result.tasks_new)
             + Len(user_data.pending_result.reminders) <= MaxEntities + 1

\* Confirm is pressed on the standing preview
ConfirmPress ==
    /\ HasIdsLeft
    /\ chat.previews > 0
    /\ \E inp \in ConfirmInputs :
          Commit(on_preview_callback(Machine, "confirm", inp),
                 Event("preview", "confirm"))

\* a later message brings the next result to preview
ConfirmText ==
    /\ chat.previews = 0
    /\ \E inp \in ConfirmInputs :
          /\ inp.script = StoreUp
          /\ Commit(handle_text(Machine, TextB, inp), Event("text", TextB))

NextConfirm ==
    \/ ConfirmPress
    \/ ConfirmText

SpecConfirm == InitConfirm /\ [][NextConfirm]_vars

\* this step is a confirm of a pending result
ConfirmStep ==
    /\ call_in'.event = "preview"
    /\ call_in'.data = "confirm"
    /\ user_data.pending_result # NoResult

\* the state follows a confirm
AfterConfirm == call_in.event = "preview" /\ call_in.data = "confirm"

\* the info lines of a trace, and those of one kind about one text
Infos(tr) == SelectSeq(tr, LAMBDA e : e[1] = "info")

InfosOf(tr, kind, text) ==
    SelectSeq(Infos(tr), LAMBDA e : e[2] = kind /\ e[3] = text)

\* the last n elements of a sequence
LastN(seq, n) ==
    IF Len(seq) <= n THEN seq ELSE SubSeq(seq, Len(seq) - n + 1, Len(seq))

\* the entities whose searchable text holds q, in order
Matching(tasks, q) ==
    SelectSeq(tasks, LAMBDA t : Contains(lower(Haystack(t)), q))

\* entity e is among the closed ones
IsClosed(st, e) == \E i \in 1..Len(st.closed) : st.closed[i].id = e.id

\* what a confirm of one update that closes its targets must do, given the
\* entities the target matches in the refreshed snapshot
CapRespected(matched, upd, tr, before, after) ==
    /\ Len(matched) > MaxAuto =>
          /\ Len(InfosOf(tr, "too_many", upd.target)) = 1
          /\ Len(Infos(tr)) = 1
          /\ Calls(tr, "update_task") = <<>>
          /\ Calls(tr, "close_task") = <<>>
          /\ Calls(tr, "reopen_task") = <<>>
          /\ after = before
    /\ (Len(matched) > 0 /\ Len(matched) <= MaxAuto) =>
          /\ InfosOf(tr, "too_many", upd.target) = <<>>
          /\ Len(Calls(tr, "update_task")) = Len(matched)
          /\ (\A i \in 1..Len(tr) : Len(tr[i]) = 2 => tr[i][2] # "fail")
                => \A i \in 1..Len(matched) : IsClosed(after, matched[i])

\* C14: an update whose target matches more entities than the cap produces
\* exactly one warning line naming the target text and no update, close or
\* reopen call, and leaves the Store as it was; with at most the cap every
\* matched entity gets its update call, and is closed when no call fails.
C14_CapOnMatches ==
    [][(/\ ConfirmStep
        /\ user_data.pending_result = RUpd
        /\ trace'[1] = <<"get_tasks", "ok">>)
          => CapRespected(Matching(store.tasks, TextA), RUpd.tasks_updates[1],
                          trace', store, store')]_vars

\* three entities matched "a" with a cap of two: one warning about "a", no
\* Store mutation
C14_Witness ==
    /\ AfterConfirm
    /\ Len(Matching(store.tasks, TextA)) > MaxAuto
    /\ trace[1] = <<"get_tasks", "ok">>
    /\ Len(InfosOf(trace, "too_many", TextA)) = 1
    /\ Calls(trace, "update_task") = <<>>

\* the IDs of the entities st2 holds beyond those of st1
MadeIds(st1, st2) ==
    [i \in 1..(st2.next_id - st1.next_id) |-> IdText(st1.next_id + i - 1)]

\* every create call of the trace ended as a success with an id, or raised
PlainOutcomes(tr) ==
    \A i \in 1..Len(tr) : tr[i][1] = "create_task" => tr[i][2] \in {"ok", "fail"}

\* what a confirm of new tasks alone must do: one create call and one line
\* per task, in the order of the tasks, and the IDs of the successes
\* appended to the buffer
CreatedEach(tasks, tr, buf, buf2, st, st2) ==
    /\ Len(Calls(tr, "create_task")) = Len(tasks)
    /\ Len(Infos(tr)) = Len(tasks)
    /\ \A i \in 1..Len(tasks) :
          Infos(tr)[i] =
              <<"info",
                IF Calls(tr, "create_task")[i][2] = "ok" THEN "created"
                ELSE "create_failed",
                tasks[i].title>>
    /\ Len(MadeIds(st, st2))
          = Len(SelectSeq(Calls(tr, "create_task"), LAMBDA c : c[2] = "ok"))
    /\ Len(st2.tasks) = Len(st.tasks) + Len(MadeIds(st, st2))
    /\ \A i \in 1..Len(MadeIds(st, st2)) :
          st2.tasks[Len(st.tasks) + i].id = MadeIds(st, st2)[i]
    /\ buf2 = LastN(buf \o MadeIds(st, st2), BufCap)

C16_EveryCreateRecorded ==
    [][ConfirmStep =>
          /\ created_task_ids'
               = LastN(created_task_ids \o MadeIds(store, store'), BufCap)
          /\ \A i \in 1..Len(created_task_ids') :
                created_task_ids'[i] # <<>>]_vars

\* the values the loop over the new tasks appended, read off the trace: a
\* create followed by its success line appended the returned id, which is
\* empty when the response carried none; n is the next free ID
RECURSIVE AppendedIds(_, _)
AppendedIds(tr, n) ==
    IF Len(tr) < 2 THEN <<>>
    ELSE IF tr[1][1] = "create_task" /\ tr[1][2] # "fail"
    THEN (IF tr[2][1] = "info" /\ tr[2][2] = "created"
          THEN <<IF tr[1][2] = "noid" THEN <<>> ELSE IdText(n)>>
          ELSE <<>>)
         \o AppendedIds(Tail(tr), n + 1)
    ELSE AppendedIds(Tail(tr), n)

\* C17: after every confirm the created-ID buffer holds at most its
\* capacity, and holds the most recently appended values in the order they
\* were appended: what does not fit is dropped from the old end.
C17_BufferKeepsNewest ==
    [][ConfirmStep =>
          /\ Len(created_task_ids') <= BufCap
          /\ created_task_ids'
               = LastN(created_task_ids \o AppendedIds(trace', store.next_id),
                       BufCap)]_vars

\* two creates into a buffer that was not empty: the buffer is full, holds
\* the two new IDs in creation order and no longer its oldest entry
C17_Witness ==
    /\ AfterConfirm
    /\ Len(InfosOf(trace, "created", TextA)) = 1
    /\ Len(InfosOf(trace, "created", TextB)) = 1
    /\ Len(created_task_ids) = BufCap
    /\ created_task_ids[BufCap] = IdText(store.next_id - 1)
    /\ created_task_ids[BufCap - 1] = IdText(store.next_id - 2)
    /\ \A i \in 1..BufCap : created_task_ids[i] # <<"1">>

(***************************************************************************)
(* The DateTime normalizer on its own: one conversion of one text          *)
(***************************************************************************)
\* "@1T02", "@1T09", "@1T23", "@2T00", "@1": without a zone
NaiveTexts ==
    {<<"@", "1", "T", "0", "2">>, <<"@", "1", "T", "0", "9">>,
     <<"@", "1", "T", "2", "3">>, <<"@", "2", "T", "0", "0">>, <<"@", "1">>}

\* "@1T09Z", "@1T00Z", "@1T23Z", "@1T09+2", "@1T01-1", " @1T09Z ": with a zone
ZonedTexts ==
    {<<"@", "1", "T", "0", "9", "Z">>, <<"@", "1", "T", "0", "0", "Z">>,
     <<"@", "1", "T", "2", "3", "Z">>, <<"@", "1", "T", "0", "9", "+", "2">>,
     <<"@", "1", "T", "0", "1", "-", "1">>,
     <<" ", "@", "1", "T", "0", "9", "Z", " ">>}

\* "x", " x ", "@1T25", "@1T09+", "@xT09": no datetime
BadTexts ==
    {<<"x">>, <<" ", "x", " ">>, <<"@", "1", "T", "2", "5">>,
     <<"@", "1", "T", "0", "9", "+">>, <<"@", "x", "T", "0", "9">>}

\* "", " ": nothing
BlankTexts == {<<>>, <<" ">>}

\* "a", "today", "9:00", "9:00 z": the user's message
OriginalTexts ==
    {TextA, WordTodayEn, <<"9", ":", "0", "0">>,
     <<"9", ":", "0", "0", " ", "z">>}

NormalizeCalls ==
    [x : NaiveTexts \cup ZonedTexts \cup BadTexts \cup BlankTexts,
     original : OriginalTexts]

InitNormalize ==
    /\ env \in [allowed : {0}, job_queue : {FALSE}, todoist : {TRUE}, validator : {FALSE},
                tz : {-1, 0, 1}, dst : BOOLEAN, today : {1}, fuzzy : {FALSE},
                projects : {{}}]
    /\ call_in \in NormalizeCalls
    /\ user_data = EmptyUserData
    /\ jobs = {}
    /\ cache = [items |-> <<>>, ts |-> 0, fresh |-> TRUE]
    /\ store = [tasks |-> <<>>, closed |-> <<>>, next_id |-> 1]
    /\ created_task_ids = <<>>
    /\ chat = [previews |-> 0, project_kb |-> FALSE]
    /\ now = Ttl
    /\ trace = <<>>
    /\ call_out = NoCall

\* a conversion has returned: its name and its result
Returned(op, val) ==
    /\ call_out' = [op |-> op, val |-> val]
    /\ UNCHANGED <<env, user_data, jobs, cache, created_task_ids, store, chat,
                   now, trace, call_in>>

CallToUtcZ ==
    /\ call_out.op = "none"
    /\ Returned("to_utc_z", to_utc_z(call_in.x, FALSE))

CallToLocalNaive ==
    /\ call_out.op = "none"
    /\ Returned("to_local_naive", to_local_naive(call_in.x))

CallToLocalWithOffset ==
    /\ call_out.op = "none"
    /\ Returned("to_local_with_offset",
                to_local_with_offset(
                    call_in.x, should_force_local_from_input(call_in.original)))

CallFormatLocalWall ==
    /\ call_out.op = "none"
    /\ Returned("format_local_wall",
                format_local_wall(call_in.x, call_in.original))

\* _to_local_with_offset(_to_utc_z(x), force_local=True)
CallRoundTrip ==
    /\ call_out.op = "none"
    /\ Returned("round_trip",
                to_local_with_offset(to_utc_z(call_in.x, FALSE), TRUE))

\* a deadline as the preview shows it (lines 381, 414) and as confirm sends
\* it to the Store (lines 870-874, 1014-1016)
CallPreviewAndApply ==
    /\ call_out.op = "none"
    /\ Returned("preview_apply",
                [shown |-> format_local_wall(call_in.x, call_in.original),
                 sent |-> to_local_with_offset(
                              call_in.x,
                              should_force_local_from_input(call_in.original))])

NextNormalize ==
    \/ CallToUtcZ
    \/ CallToLocalNaive
    \/ CallToLocalWithOffset
    \/ CallFormatLocalWall
    \/ CallRoundTrip
    \/ CallPreviewAndApply

SpecNormalize == InitNormalize /\ [][NextNormalize]_vars

\* the text reads as a datetime, and as one without a zone
IsDatetime(x) == ParseDt(strip(x)).ok

IsNaive(x) == IsDatetime(x) /\ ~ParseDt(strip(x)).aware

\* the date and the hour a datetime text shows: its clock reading
WallOf(text) == [day |-> ParseDt(text).day, hour |-> ParseDt(text).hour]

\* C18: for every datetime x without a zone and every home timezone, turning
\* x into a UTC instant and that instant into local time with its offset
\* gives back the clock reading of x.
C18_RoundTripKeepsWall ==
    (call_out.op = "round_trip" /\ IsNaive(call_in.x)) =>
        /\ IsDatetime(call_out.val)
        /\ WallOf(call_out.val) = WallOf(strip(call_in.x))

\* C19: for every deadline that reads as a datetime, with or without a
\* zone, and every original input, the clock reading the preview shows is
\* the clock reading of the due value sent to the Store.
C19_PreviewMatchesSent ==
    (call_out.op = "preview_apply" /\ IsDatetime(call_in.x)) =>
        /\ IsDatetime(call_out.val.shown)
        /\ IsDatetime(call_out.val.sent)
        /\ ~ParseDt(call_out.val.shown).aware
        /\ ParseDt(call_out.val.sent).aware
        /\ WallOf(call_out.val.shown) = WallOf(call_out.val.sent)

\* 09:00 UTC is shown as 10:00 one hour east of UTC, and 10:00 with the
\* offset of the home timezone is what is sent
C19_Witness ==
    /\ call_out.op = "preview_apply"
    /\ env.tz = 1
    /\ ~env.dst
    /\ call_in.x = <<"@", "1", "T", "0", "9", "Z">>
    /\ call_out.val.shown = <<"@", "1", "T", "1", "0">>
    /\ call_out.val.sent = <<"@", "1", "T", "1", "0", "+", "1">>

ConversionNames ==
    {"to_utc_z", "to_local_naive", "to_local_with_offset", "format_local_wall"}

\* C20 as stated: each of the four conversions returns a non-empty text that
\* does not read as a datetime as it is, trimmed.
C20_UnparsableReturnedTrimmed ==
    (/\ call_out.op \in ConversionNames
     /\ call_in.x # <<>>
     /\ ~IsDatetime(call_in.x)) => call_out.val = strip(call_in.x)

\* C20 amended: each of the four conversions returns a text that is not
\* blank and does not read as a datetime as it is, trimmed; for a blank
\* text the result is None, and a dash from format_local_wall.
C20_UnparsableReturnedUnlessBlank ==
    (call_out.op \in ConversionNames /\ ~IsDatetime(call_in.x)) =>
        call_out.val =
            IF strip(call_in.x) # <<>> THEN strip(call_in.x)
            ELSE IF call_out.op = "format_local_wall" THEN <<"-">>
            ELSE None

\* " x " came back from _to_local_naive as "x"
C20_Witness ==
    /\ call_out.op = "to_local_naive"
    /\ call_in.x = <<" ", "x", " ">>
    /\ call_out.val = <<"x">>

(***************************************************************************)
(* The force-local heuristic on its own: one call on one message           *)
(***************************************************************************)
\* how a message begins: "", "a", "today", "Tomorrow", "zavtra", "vstrecha v"
ForceHeads ==
    {<<>>, TextA, WordTodayEn,
     <<"T", "o", "m", "o", "r", "r", "o", "w">>, WordTomorrowRu,
     <<"v", "s", "t", "r", "e", "c", "h", "a", " ", "v">>}

\* the time it names: none, " 18:00", " 9:05", " 18:0", "x18:00"
ForceTimes ==
    {<<>>, <<" ", "1", "8", ":", "0", "0">>, <<" ", "9", ":", "0", "5">>,
     <<" ", "1", "8", ":", "0">>, <<"x", "1", "8", ":", "0", "0">>}

\* how it ends: "", " UTC", " gmt", "+3", "+5", " Z", " zoo", " 2025-01-15"
ForceTails ==
    {<<>>, <<" ", "U", "T", "C">>, <<" ", "g", "m", "t">>, <<"+", "3">>,
     <<"+", "5">>, <<" ", "Z">>, <<" ", "z", "o", "o">>,
     <<" ", "2", "0", "2", "5", "-", "0", "1", "-", "1", "5">>}

\* "vstrecha v 18:00"
TextMeeting ==
    <<"v", "s", "t", "r", "e", "c", "h", "a", " ", "v", " ", "1", "8", ":",
      "0", "0">>

\* "18:00 UTC"
TextUtc == <<"1", "8", ":", "0", "0", " ", "U", "T", "C">>

ForceTexts ==
    {h \o t \o z : h \in ForceHeads, t \in ForceTimes, z \in ForceTails}
        \cup {TextUtc}

InitForceLocal ==
    /\ env \in [allowed : {0}, job_queue : {FALSE}, todoist : {TRUE}, validator : {FALSE},
                tz : {0}, dst : {FALSE}, today : {1}, fuzzy : {FALSE},
                projects : {{}}]
    /\ call_in \in [original : ForceTexts]
    /\ user_data = EmptyUserData
    /\ jobs = {}
    /\ cache = [items |-> <<>>, ts |-> 0, fresh |-> TRUE]
    /\ store = [tasks |-> <<>>, closed |-> <<>>, next_id |-> 1]
    /\ created_task_ids = <<>>
    /\ chat = [previews |-> 0, project_kb |-> FALSE]
    /\ now = Ttl
    /\ trace = <<>>
    /\ call_out = NoCall

\* _should_force_local_from_input(original_input)
CallForceLocal ==
    /\ call_out.op = "none"
    /\ Returned("force_local", should_force_local_from_input(call_in.original))

NextForceLocal ==
    \/ CallForceLocal

SpecForceLocal == InitForceLocal /\ [][NextForceLocal]_vars

\* a letter of either alphabet
IsLetter(c) == c \in LetterChars \cup {"ze"}

\* a Z that stands by itself: no letter before it and none after it
HasBareZ(t) ==
    \E i \in 1..Len(t) :
        /\ t[i] = "z"
        /\ (i = 1 \/ ~IsLetter(t[i - 1]))
        /\ (i = Len(t) \/ ~IsLetter(t[i + 1]))

\* a sign and a digit; a hyphen between the digits of a date is no sign,
\* one after the minutes of a clock time is
HasNumericOffset(t) ==
    \E i \in 1..(Len(t) - 1) :
        /\ t[i] \in {"+", "-"}
        /\ t[i + 1] \in DigitChars
        /\ \/ t[i] = "+"
           \/ i = 1
           \/ t[i - 1] \notin DigitChars
           \/ (i > 3 /\ t[i - 3] = ":")

\* UTC, GMT, a numeric offset marker or a bare Z, in any case
HasZoneMarker(text) ==
    \/ Contains(lower(text), <<"u", "t", "c">>)
    \/ Contains(lower(text), <<"g", "m", "t">>)
    \/ HasNumericOffset(text)
    \/ HasBareZ(lower(text))

HasRelativeWord(text) == \E x \in RelativeWords : Contains(lower(text), x)

\* C21: the heuristic is false for every message with an explicit zone
\* marker (UTC, GMT, a numeric offset, a bare Z), and for every other
\* message it is true exactly when the message has a relative-day word or a
\* bare HH:MM; so a message with a relative-day word whose only z is inside
\* a word, or whose only hyphens are inside a date, gives true.
C21_ForceLocalByMarker ==
    call_out.op = "force_local" =>
        call_out.val =
            (/\ ~HasZoneMarker(call_in.original)
             /\ (HasRelativeWord(call_in.original)
                    \/ HasClockTime(lower(call_in.original))))

(***************************************************************************)
(* Confirm, for what it sends to the Store: the targets and times of the   *)
(* reminders, the labels of an update, the due values                      *)
(***************************************************************************)
\* an entity called "b"
B2 == Entity(<<"2">>, TextB, <<>>)

\* an entity called "c" with the labels "x" and "T"
C3 == [Entity(<<"3">>, <<"c">>, <<>>) EXCEPT !.labels = <<<<"x">>, <<"T">>>>]

TextC == <<"c">>

\* 09:00 on day 1: in UTC, without a zone, two hours east of UTC
AtUtc == <<"@", "1", "T", "0", "9", "Z">>

AtNaive == <<"@", "1", "T", "0", "9">>

AtEast == <<"@", "1", "T", "0", "9", "+", "2">>

\* the ISO 8601 duration of one hour
OneHour == <<"P", "T", "1", "H">>

\* reminders about "a", "b" (entities of the Store) and "z" (no entity): at
\* a time with or without a zone, or an hour before without a time, and one
\* with neither
SendReminders ==
    {Reminder(t, at) : t \in {TextA, TextB, TextZ}, at \in {AtUtc, AtNaive}}
        \cup {[Reminder(t, <<>>) EXCEPT !.offset = OneHour] : t \in {TextB, TextZ}}
        \cup {Reminder(TextA, <<>>)}

\* one reminder, or two about different things
ReminderSeqs ==
    {<<r>> : r \in SendReminders}
        \cup {rs \in [1..2 -> SendReminders] : rs[1].title # rs[2].title}

\* the deadlines the Oracle can extract: the times above, a date, no date
SendDeadlines == {AtUtc, AtNaive, AtEast, <<"@", "1">>, <<"x">>}

\* label changes of what is called "c"
LabelChanges ==
    {[NoChanges EXCEPT !.labels_add = add, !.labels_remove = rem]
        : add \in {<<>>, <<<<" ", "L", " ">>>>, <<<<"x">>>>},
          rem \in {<<>>, <<<<"x">>>>, <<<<"t">>>>, <<<<"x">>, <<"t">>>>,
                   <<<<" ", "T">>, <<" ">>>>}}
        \ {NoChanges}

SendResults ==
    {[EmptyResult EXCEPT !.tasks_new = new, !.reminders = rs]
        : new \in {<<>>, <<Task(TextC)>>}, rs \in ReminderSeqs}
    \cup {[EmptyResult EXCEPT !.tasks_new = <<[Task(TextB) EXCEPT !.deadline = d]>>]
            : d \in SendDeadlines}
    \cup {[EmptyResult EXCEPT
              !.tasks_updates = <<Update(TextA, [NoChanges EXCEPT !.deadline = d])>>]
            : d \in SendDeadlines}
    \cup {[EmptyResult EXCEPT !.tasks_updates = <<Update(TextC, ch)>>]
            : ch \in LabelChanges}

\* the outcomes of the Store calls of one confirm: every call succeeds; or
\* one of them raises; or the response to the first create carries no id;
\* or every call raises
SendScripts ==
    {[StoreUp EXCEPT ![k] = "fail"] : k \in 1..ScriptLen}
        \cup {StoreUp, [StoreUp EXCEPT ![1] = "noid"],
              [i \in 1..ScriptLen |-> "fail"]}

SendInputs ==
    [script : SendScripts, resps : {<<Resp("ok", EmptyResult)>>},
     vresp : {Resp("nodata", EmptyResult)}, ans : {TRUE}]

InitSend ==
    /\ env \in [allowed : {0}, job_queue : {FALSE}, todoist : {TRUE}, validator : {FALSE},
                tz : {0, 1}, dst : {FALSE}, today : {1}, fuzzy : {FALSE},
                projects : {{}}]
    /\ user_data \in {[EmptyUserData EXCEPT !.pending_result = r,
                                            !.original_input = TextQ]
                        : r \in SendResults}
    /\ jobs = {}
    /\ store = [tasks |-> <<E1, B2, C3>>, closed |-> <<>>, next_id |-> 4]
    /\ cache = [items |-> store.tasks, ts |-> Ttl, fresh |-> TRUE]
    /\ created_task_ids = <<>>
    /\ chat = [previews |-> 1, project_kb |-> FALSE]
    /\ now = Ttl
    /\ trace = <<>>
    /\ call_in = NoEvent
    /\ call_out = None

\* Confirm is pressed on the standing preview
SendPress ==
    /\ chat.previews > 0
    /\ \E inp \in SendInputs :
          Commit(on_preview_callback(Machine, "confirm", inp),
                 Event("preview", "confirm"))

NextSend ==
    \/ SendPress

SpecSend == InitSend /\ [][NextSend]_vars

\* no Store call of the trace raised, and every create returned an id
AllWentWell(tr) ==
    \A i \in 1..Len(tr) : Len(tr[i]) = 2 => tr[i][2] \notin {"fail", "noid"}

\* the reminders the Store accepted: <<"reminder", item_id, title, at>>
Accepted(tr) == SelectSeq(tr, LAMBDA e : e[1] = "reminder")

\* the entities of the Store called as the placeholder of this title is
Placeholders(st, title) ==
    SelectSeq(st.tasks, LAMBDA t : t.content = ReminderMarker \o title)

\* item_id is the target the reminder r must get: the first task created by
\* this confirm; else the first match of r's own title; else a placeholder
\* made for r
IsOwnTarget(item_id, r, pending, original, st, buf, st2) ==
    IF pending.tasks_new # <<>> THEN item_id = IdText(st.next_id)
    ELSE IF ResolveIn(r.title, original, st.tasks, buf) # <<>>
    THEN item_id = ResolveIn(r.title, original, st.tasks, buf)[1].id
    ELSE \E i \in 1..Len(Placeholders(st2, r.title)) :
            Placeholders(st2, r.title)[i].id = item_id

\* C22: in a confirm in which no Store call fails, every reminder with a
\* time is set on its own target: the first task created by this confirm
\* if there is one, else the first match of the reminder's own title, else a
\* placeholder task made from the reminder's own title.
C22_OwnTarget ==
    [][(/\ ConfirmStep
        /\ user_data.pending_result.reminders # <<>>
        /\ \A i \in 1..Len(user_data.pending_result.reminders) :
              user_data.pending_result.reminders[i].at # <<>>
        /\ AllWentWell(trace'))
          => /\ Len(Accepted(trace')) = Len(user_data.pending_result.reminders)
             /\ \A i \in 1..Len(user_data.pending_result.reminders) :
                   /\ Accepted(trace')[i][3]
                         = user_data.pending_result.reminders[i].title
                   /\ IsOwnTarget(Accepted(trace')[i][2],
                                  user_data.pending_result.reminders[i],
                                  user_data.pending_result,
                                  user_data.original_input, store,
                                  created_task_ids, store')]_vars

\* the lines and Store records of a trace about the reminder of one title
SkipLines(tr, title) == InfosOf(tr, "reminder_skipped", title)

\* create_reminder was called for the reminder of this title
RemindCalled(tr, title) ==
    \/ \E i \in 1..Len(Accepted(tr)) : Accepted(tr)[i][3] = title
    \/ InfosOf(tr, "reminder_set", title) # <<>>
    \/ InfosOf(tr, "reminder_failed", title) # <<>>

\* the reminder of this title got no target: the create of its placeholder
\* raised, or the response to it carried no id
TargetMissing(tr, title) ==
    \/ InfosOf(tr, "placeholder_failed", title) # <<>>
    \/ \E i \in 2..Len(tr) :
          /\ tr[i] = <<"info", "placeholder_created", title>>
          /\ tr[i - 1] = <<"create_task", "noid">>

\* C23 as stated: every reminder without a time is skipped with one
\* warning line, and create_reminder is not called for it, whether or not
\* it has an offset.
C23_NoTimeSkipped ==
    [][ConfirmStep =>
          \A i \in 1..Len(user_data.pending_result.reminders) :
              user_data.pending_result.reminders[i].at = <<>> =>
                  /\ Len(SkipLines(trace',
                                   user_data.pending_result.reminders[i].title)) = 1
                  /\ ~RemindCalled(trace',
                                   user_data.pending_result.reminders[i].title)]_vars

\* C23 amended: create_reminder is never called for a reminder without a
\* time, whether or not it has an offset; the reminder is skipped with one
\* warning line when it has a target task, and with no warning line when
\* the create of its placeholder task raised or returned no id.
C23_NoTimeNoReminder ==
    [][ConfirmStep =>
          \A i \in 1..Len(user_data.pending_result.reminders) :
              user_data.pending_result.reminders[i].at = <<>> =>
                  /\ Len(SkipLines(trace',
                                   user_data.pending_result.reminders[i].title))
                        = IF TargetMissing(
                                trace', user_data.pending_result.reminders[i].title)
                          THEN 0 ELSE 1
                  /\ ~RemindCalled(trace',
                                   user_data.pending_result.reminders[i].title)]_vars

\* the reminder about "b", an hour before and without a time, found the
\* entity "b" and was skipped with one warning; nothing was sent to the Store
C23_Witness ==
    /\ AfterConfirm
    /\ InfosOf(trace, "attached", TextB) # <<>>
    /\ Len(SkipLines(trace, TextB)) = 1
    /\ Calls(trace, "create_reminder") = <<>>
    /\ Calls(trace, "create_task") = <<>>

\* the elements of a sequence
Elems(seq) == {seq[i] : i \in 1..Len(seq)}

\* the labels a change names, trimmed and lowercased, blank ones left out
Named(labels) ==
    {lower(strip(l)) : l \in {x \in Elems(labels) : strip(x) # <<>>}}

\* the entity of a Store with this ID
EntityOf(st, id) == st.tasks[CHOOSE i \in 1..Len(st.tasks) : st.tasks[i].id = id]

\* the labels an entity must carry after a change, given those it carried:
\* the old ones and the added ones without the removed ones, each once
LabelsAre(after, before, ch) ==
    /\ Elems(after)
          = {l \in Elems(before) \cup Named(ch.labels_add)
                : lower(l) \notin Named(ch.labels_remove)}
    /\ \A i, j \in 1..Len(after) : after[i] = after[j] => i = j

\* C29: after a confirm in which no Store call fails, an updated entity
\* carries its old labels and the lowercased added ones without the removed
\* ones, each once; so it carries none of the labels that were to be
\* removed, also when that leaves it without labels.
C29_LabelsMerged ==
    [][(/\ ConfirmStep
        /\ user_data.pending_result.tasks_updates # <<>>
        /\ user_data.pending_result.tasks_updates[1].target = TextC
        /\ AllWentWell(trace'))
          => LabelsAre(EntityOf(store', C3.id).labels, C3.labels,
                       user_data.pending_result.tasks_updates[1].changes)]_vars

\* the due values this step wrote to entities of the Store: those of the
\* entities it created and those it changed
DuesWritten(before, after) ==
    {after.tasks[i].due : i \in
        {i \in 1..Len(after.tasks) :
            /\ after.tasks[i].due # <<>>
            /\ \/ i > Len(before.tasks)
               \/ after.tasks[i].due # before.tasks[i].due}}

\* the text parses as a date and time and names its offset
CarriesOffset(due) == ParseDt(due).ok => ParseDt(due).aware

\* C30: every due value a confirm passes to the Store for a parsable time,
\* be it the due of a created task, of an updated task or of a reminder,
\* carries an explicit offset or Z.
C30_DueCarriesOffset ==
    [][ConfirmStep
          => /\ \A due \in DuesWritten(store, store') : CarriesOffset(due)
             /\ \A i \in 1..Len(Accepted(trace')) :
                   CarriesOffset(Accepted(trace')[i][4])]_vars

(***************************************************************************)
(* Events of one sender when ALLOWED_USER_ID is configured: the sender is  *)
(* the allowed user, or a stranger.  user_data is the sender's own; the    *)
(* button messages of the chat may be those the allowed user was sent in a *)
(* chat the stranger shares.                                               *)
(***************************************************************************)
\* the user ID of somebody else
Stranger == 2

InitAccess ==
    /\ env \in [allowed : {Sender, Stranger}, job_queue : {TRUE}, todoist : {TRUE},
                validator : {FALSE}, tz : {0}, dst : {FALSE}, today : {1},
                fuzzy : {FALSE}, projects : {{<<<<"w">>, <<"5">>>>}}]
    /\ user_data = EmptyUserData
    /\ jobs = {}
    /\ cache = [items |-> <<>>, ts |-> 0, fresh |-> TRUE]
    /\ created_task_ids = <<>>
    /\ store = [tasks |-> <<E1>>, closed |-> <<>>, next_id |-> 2]
    /\ chat \in [previews : {0, 1}, project_kb : BOOLEAN]
    /\ now = Ttl
    /\ trace = <<>>
    /\ call_in = NoEvent
    /\ call_out = None

SpecAccess == InitAccess /\ [][Next]_vars

\* the sender is not the configured user
Denied == env.allowed \notin {0, Sender}

\* what a refused event leaves behind: the refusal and the log entry
RefusalOnly == <<<<"reply", "refusal", <<>>, "none">>, <<"log", "unauthorized">>>>

\* C24: with an allowed user configured, an event of any kind from another
\* user has no effect but the refusal message and the log entry: the
\* conversation state, the job queue, the Store, the cache and the chat's
\* button messages stay as they were, and nothing else is replied.
C24_StrangerRefused ==
    [][(/\ Denied
        /\ call_in'.event \in {"text", "voice", "preview", "clarify"})
          => /\ user_data' = user_data
             /\ jobs' = jobs
             /\ store' = store
             /\ cache' = cache
             /\ trace' = RefusalOnly]_vars

(***************************************************************************)
(* The clarification loop and the refine flag, on the session machine      *)
(***************************************************************************)
\* the session waits for answers and for nothing else
AwaitingClarification ==
    /\ user_data.awaiting_clarifications
    /\ ~user_data.awaiting_refine_input
    /\ ~user_data.session_expired

\* the handler replied with questions
Asked(tr) == \E i \in 1..Len(tr) : tr[i][1] = "reply" /\ tr[i][2] = "questions"

\* the input a clarification round extracts from
Accumulated(text) == user_data.original_input \o AnswersMarker \o text

\* C27: while the session awaits clarifications, a text answer is appended
\* to the accumulated input; if the Oracle asks again the session keeps
\* waiting with the accumulated text stored, and in the first round without
\* questions it is Previewing: not waiting, with a pending result and the
\* accumulated text stored.
C27_ClarificationLoop ==
    [][(/\ AwaitingClarification
        /\ call_in'.event = "text"
        /\ strip(call_in'.data) # <<>>)
          => /\ user_data'.original_input = Accumulated(call_in'.data)
             /\ IF Asked(trace')
                THEN user_data'.awaiting_clarifications
                ELSE /\ ~user_data'.awaiting_clarifications
                     /\ user_data'.pending_result # NoResult
                     /\ Replies(trace')[Len(Replies(trace'))][4] = "preview_kb"]_vars

\* C28: whenever the refine flag is set a pending result is present.
C28_RefineHasPending ==
    user_data.awaiting_refine_input => user_data.pending_result # NoResult

(***************************************************************************)
(* The active-task cache on its own: reads and forced refreshes while time *)
(* passes and the Store's content changes, each Store call ending either   *)
(* way                                                                     *)
(***************************************************************************)
\* what the Store may hold: nothing, one entity, two
StoreContents == {<<>>, <<E1>>, <<E1, B2>>}

InitCache ==
    /\ env \in [allowed : {0}, job_queue : {FALSE}, todoist : {TRUE},
                validator : {FALSE}, tz : {0}, dst : {FALSE}, today : {1},
                fuzzy : {FALSE}, projects : {{}}]
    /\ user_data = EmptyUserData
    /\ jobs = {}
    /\ cache = [items |-> <<>>, ts |-> 0, fresh |-> TRUE]
    /\ created_task_ids = <<>>
    /\ store \in [tasks : StoreContents, closed : {<<>>}, next_id : {3}]
    /\ chat = [previews |-> 0, project_kb |-> FALSE]
    /\ now = Ttl
    /\ trace = <<>>
    /\ call_in = NoEvent
    /\ call_out = NoCall

\* _get_active_tasks_cached(context)
CacheRead ==
    \E outcome \in {"ok", "fail"} :
        LET r == get_active_tasks_cached(World, <<outcome>>)
        IN /\ cache' = r.w.cache
           /\ trace' = r.w.trace
           /\ call_in' = Event("cache_read", <<>>)
           /\ call_out' = [op |-> IF r.ok THEN "returned" ELSE "raised",
                           val |-> r.val]
           /\ UNCHANGED <<env, user_data, jobs, created_task_ids, store, chat,
                          now>>

\* _refresh_active_tasks_cache(context)
CacheRefresh ==
    \E outcome \in {"ok", "fail"} :
        LET w == refresh_active_tasks_cache(World, <<outcome>>)
        IN /\ cache' = w.cache
           /\ trace' = w.trace
           /\ call_in' = Event("cache_refresh", <<>>)
           /\ call_out' = [op |-> "returned", val |-> <<>>]
           /\ UNCHANGED <<env, user_data, jobs, created_task_ids, store, chat,
                          now>>

\* time.time() advances between two calls
Elapse ==
    /\ now < MaxNow
    /\ now' = now + 1
    /\ trace' = <<>>
    /\ call_in' = NoEvent
    /\ call_out' = NoCall
    /\ UNCHANGED <<env, user_data, jobs, cache, created_task_ids, store, chat>>

\* the user's tasks change in the Store, behind the cache
StoreChanges ==
    /\ \E tasks \in StoreContents \ {store.tasks} :
          store' = [store EXCEPT !.tasks = tasks]
    /\ cache' = [cache EXCEPT !.fresh = FALSE]
    /\ trace' = <<>>
    /\ call_in' = NoEvent
    /\ call_out' = NoCall
    /\ UNCHANGED <<env, user_data, jobs, created_task_ids, chat, now>>

NextCache ==
    \/ CacheRead
    \/ CacheRefresh
    \/ Elapse
    \/ StoreChanges

SpecCache == InitCache /\ [][NextCache]_vars

\* the last fetch is younger than the TTL
WithinTtl == now - cache.ts < Ttl

\* the step fetched from the Store: both fields replaced on success, the
\* items left as they were on failure
Refetched ==
    /\ Len(Calls(trace', "get_tasks")) = 1
    /\ IF trace'[1][2] = "ok"
       THEN cache'.items = store.tasks /\ cache'.ts = now
       ELSE cache'.items = cache.items

\* C26: a read within the TTL returns the stored snapshot, whatever it
\* holds, without a Store call; a read after the TTL and a forced refresh
\* call the Store and replace items and timestamp; a failed fetch leaves the
\* items as they were.
C26_CacheRead ==
    [][/\ (call_in'.event = "cache_read" /\ WithinTtl)
            => /\ trace' = <<>>
               /\ call_out'.op = "returned"
               /\ call_out'.val = cache.items
               /\ cache' = cache
       /\ (call_in'.event = "cache_read" /\ ~WithinTtl) => Refetched
       /\ call_in'.event = "cache_refresh" => Refetched]_vars

(***************************************************************************)
(* The event loop: updates of two users arrive in the update queue of the  *)
(* Application, which main() builds without concurrent updates: the next   *)
(* update is taken when the handler of the one before has finished.  A     *)
(* handler is a coroutine on the loop's only thread.  handle_text calls    *)
(* llm.extract_tasks and llm.validate_extraction as plain functions, and   *)
(* they post through a synchronous httpx.Client: the thread stays inside   *)
(* the call until the response is there.  The handler gives the thread up  *)
(* only at its await of reply_text.                                        *)
(***************************************************************************)
Users == {Sender, Stranger}

\* the most updates the model lets arrive
MaxUpdates == 4

\* the positions of handle_text at which the thread is inside a network call
InNetworkCall == {"extract", "validate"}

\* no handler is being run
LoopIdle == [op |-> "idle", val |-> 0]

InitLoop ==
    /\ env \in [allowed : {0}, job_queue : {FALSE}, todoist : {TRUE},
                validator : {FALSE}, tz : {0}, dst : {FALSE}, today : {1},
                fuzzy : {FALSE}, projects : {{}}]
    /\ user_data = EmptyUserData
    /\ jobs = {}
    /\ cache = [items |-> <<>>, ts |-> 0, fresh |-> TRUE]
    /\ created_task_ids = <<>>
    /\ store = [tasks |-> <<>>, closed |-> <<>>, next_id |-> 1]
    /\ chat = [previews |-> 0, project_kb |-> FALSE]
    /\ now = Ttl
    /\ trace = <<>>
    /\ call_in = <<>>
    /\ call_out = LoopIdle

\* the configuration and the session data play no part in the loop
LoopRest == <<env, user_data, jobs, cache, created_task_ids, store, chat, now>>

\* the handlers that have finished, and the one being run if any
Taken == Len(trace) + (IF call_out.op = "idle" THEN 0 ELSE 1)

\* Telegram delivers a text of user u
UpdateArrives ==
    /\ Len(call_in) + Taken < MaxUpdates
    /\ \E u \in Users : call_in' = Append(call_in, u)
    /\ UNCHANGED <<call_out, trace>>
    /\ UNCHANGED LoopRest

\* the Application can take the next update and start its handler: the
\* thread is free and the handler of the one before has finished
CanStartHandler == call_out.op = "idle"

\* handle_text starts for the first update of the queue and runs up to its
\* call of llm.extract_tasks
StartHandler ==
    /\ CanStartHandler
    /\ call_in # <<>>
    /\ call_out' = [op |-> "extract", val |-> Head(call_in)]
    /\ call_in' = Tail(call_in)
    /\ UNCHANGED trace
    /\ UNCHANGED LoopRest

\* client.post of the extract call returns; the handler goes on to
\* llm.validate_extraction
ExtractReturns ==
    /\ call_out.op = "extract"
    /\ call_out' = [call_out EXCEPT !.op = "validate"]
    /\ UNCHANGED <<call_in, trace>>
    /\ UNCHANGED LoopRest

\* client.post of the validate call returns; the handler goes on to
\* await message.reply_text and gives the thread up
ValidateReturns ==
    /\ call_out.op = "validate"
    /\ call_out' = [call_out EXCEPT !.op = "reply"]
    /\ UNCHANGED <<call_in, trace>>
    /\ UNCHANGED LoopRest

\* the reply is sent and the handler returns
HandlerReturns ==
    /\ call_out.op = "reply"
    /\ call_out' = LoopIdle
    /\ trace' = Append(trace, <<"handled", call_out.val>>)
    /\ UNCHANGED call_in
    /\ UNCHANGED LoopRest

NextLoop ==
    \/ UpdateArrives
    \/ StartHandler
    \/ ExtractReturns
    \/ ValidateReturns
    \/ HandlerReturns

SpecLoop == InitLoop /\ [][NextLoop]_vars

\* a network call of one user's handler is outstanding and the next update
\* in the queue is another user's
OtherUserWaits ==
    /\ call_out.op \in InNetworkCall
    /\ call_in # <<>>
    /\ Head(call_in) # call_out.val

\* C25: while a network call of one user's handler is outstanding, the
\* handler of another user's waiting update can be started (and so be run
\* to completion before the call returns).
C25_CallSuspends == OtherUserWaits => CanStartHandler

(***************************************************************************)
(* The local post-filter of a query on its own: one call on one list of    *)
(* Store entities.  The filters of a query intent are written              *)
(* [priority_in, contains]: filters.priority.in as a set of words and      *)
(* filters.text.contains as a sequence of texts.                           *)
(***************************************************************************)
\* str(t.get("priority") or ""): the Store's integer written in digits
PriorityStr(t) == IF t.priority = <<>> THEN "" ELSE t.priority[1]

\* _apply_local_filters
apply_local_filters(tasks, filters) ==
    LET ok_p(t) == PriorityStr(t) \in filters.priority_in
        ok_text(t) ==
            \A i \in 1..Len(filters.contains) :
                Contains(lower(t.content \o <<" ">> \o t.description),
                         lower(filters.contains[i]))
        ByPriority(ts) ==
            IF filters.priority_in # {} THEN SelectSeq(ts, ok_p) ELSE ts
        ByText(ts) ==
            IF filters.contains # <<>> THEN SelectSeq(ts, ok_text) ELSE ts
    IN ByText(ByPriority(tasks))

\* Store entities of priority 1, 3 and 4; P3 has its text in two fields
P1 == [Entity(<<"1">>, <<"A", "c">>, <<>>) EXCEPT !.priority = <<"1">>]

P3 ==
    [Entity(<<"2">>, <<"a">>, <<>>) EXCEPT !.priority = <<"3">>,
                                          !.description = <<"c", "T">>]

P4 == [Entity(<<"3">>, <<"t">>, <<>>) EXCEPT !.priority = <<"4">>]

FilterSnapshots == {<<>>, <<P3>>, <<P1, P3>>, <<P3, P4, P1>>}

\* the priority sets a query may name
PrioritySets == SUBSET {"low", "medium", "high", "urgent"}

ContainsLists ==
    {<<>>, <<<<"a">>>>, <<<<"C">>>>, <<<<"a">>, <<"t">>>>, <<<<"x">>>>,
     <<<<"A", " ", "c">>>>}

InitFilter ==
    /\ env \in [allowed : {0}, job_queue : {FALSE}, todoist : {TRUE},
                validator : {FALSE}, tz : {0}, dst : {FALSE}, today : {1},
                fuzzy : {FALSE}, projects : {{}}]
    /\ user_data = EmptyUserData
    /\ jobs = {}
    /\ cache = [items |-> <<>>, ts |-> 0, fresh |-> TRUE]
    /\ created_task_ids = <<>>
    /\ store = [tasks |-> <<>>, closed |-> <<>>, next_id |-> 1]
    /\ chat = [previews |-> 0, project_kb |-> FALSE]
    /\ now = Ttl
    /\ trace = <<>>
    /\ call_in \in [tasks : FilterSnapshots, priority_in : PrioritySets,
                    contains : ContainsLists]
    /\ call_out = NoCall

\* _apply_local_filters(tasks, it)
CallApplyLocalFilters ==
    /\ call_out.op = "none"
    /\ Returned("local_filters",
                apply_local_filters(call_in.tasks,
                                    [priority_in |-> call_in.priority_in,
                                     contains |-> call_in.contains]))

NextFilter ==
    \/ CallApplyLocalFilters

SpecFilter == InitFilter /\ [][NextFilter]_vars

\* the word the schema has for a Store priority: the table of
\* _priority_to_todoist read backwards
PriorityWord(t) ==
    CHOOSE word \in {"low", "medium", "high", "urgent"} :
        priority_to_todoist(word) = t.priority

\* the entities a filter must keep: priority among the named ones if any are
\* named, and every substring in content plus description, whatever the case
MustKeep(t, priority_in, contains) ==
    /\ priority_in # {} => PriorityWord(t) \in priority_in
    /\ \A i \in 1..Len(contains) :
          Contains(lower(t.content \o <<" ">> \o t.description),
                   lower(contains[i]))

\* C31: the local post-filter returns exactly the entities whose priority
\* is in the requested set (if one is given) and whose content plus
\* description contains every requested substring, case-insensitively; an
\* entity of Store priority 3 is kept by a filter for "high".
C31_LocalFilterKeeps ==
    call_out.op = "local_filters" =>
        call_out.val =
            SelectSeq(call_in.tasks,
                      LAMBDA t : MustKeep(t, call_in.priority_in,
                                          call_in.contains))

(***************************************************************************)
(* The modes of the session, on the session machine                        *)
(***************************************************************************)
\* C32: the flags of AwaitingClarification and AwaitingRefine are never both
\* set.
C32_OneMode ==
    ~(user_data.awaiting_clarifications /\ user_data.awaiting_refine_input)

(***************************************************************************)
(* One pending result and its preview: confirm is pressed again and again, *)
(* each Store call ending either way, and the inactivity timer may fire in *)
(* between.  No message arrives, so every entity the Store gains is made   *)
(* from the one pending result.                                            *)
(***************************************************************************)
OnceResults == {RNew, RNewUpd, RTwoNew}

OnceInputs ==
    [script : [1..ScriptLen -> {"ok", "fail"}],
     resps : {<<Resp("ok", EmptyResult)>>},
     vresp : {Resp("nodata", EmptyResult)},
     ans : {TRUE}]

InitOnce ==
    /\ env \in [allowed : {0}, job_queue : {TRUE}, todoist : {TRUE},
                validator : {FALSE}, tz : {0}, dst : {FALSE}, today : {1},
                fuzzy : {FALSE}, projects : {{}}]
    /\ user_data \in {[EmptyUserData EXCEPT !.pending_result = r,
                                            !.original_input = TextB,
                                            !.timeout_job = 1]
                        : r \in OnceResults}
    /\ jobs = {1}
    /\ store = [tasks |-> <<E1>>, closed |-> <<>>, next_id |-> 2]
    /\ cache \in {[items |-> <<>>, ts |-> 0, fresh |-> TRUE],
                  [items |-> store.tasks, ts |-> Ttl, fresh |-> TRUE]}
    /\ created_task_ids = <<>>
    /\ chat = [previews |-> 1, project_kb |-> FALSE]
    /\ now = Ttl
    /\ trace = <<>>
    /\ call_in = NoEvent
    /\ call_out = None

\* Confirm is pressed on the standing preview
OncePress ==
    /\ CanTouch
    /\ HasIdsLeft
    /\ chat.previews > 0
    /\ \E inp \in OnceInputs :
          Commit(on_preview_callback(Machine, "confirm", inp),
                 Event("preview", "confirm"))

NextOnce ==
    \/ OncePress
    \/ SessionTimeout

SpecOnce == InitOnce /\ [][NextOnce]_vars

\* the entities the Store gained since the preview was shown
Gained == SubSeq(store.tasks, 2, Len(store.tasks))

\* C33: a pending result is applied at most once: however often confirm is
\* pressed, the Store gains at most one entity for each new task of the
\* pending result (the titles of its new tasks differ).
C33_AppliedOnce ==
    \A i, j \in 1..Len(Gained) :
        Gained[i].content = Gained[j].content => i = j

\* the handler that has just run showed a preview with buttons
PreviewShown ==
    /\ call_in.event \in {"text", "voice", "clarify"}
    /\ \E i \in 1..Len(trace) : trace[i][1] = "reply" /\ trace[i][4] = "preview_kb"

\* C34: when a text, a voice message or a clarify button has just led to a
\* preview with buttons, the AwaitingClarification flag is false.
C34_PreviewEndsClarification ==
    PreviewShown => ~user_data.awaiting_clarifications

\* C35: a button press handled while the session is marked expired, be it
\* a preview button or a project-choice button, clears the mark.
C35_ButtonResumes ==
    [][(/\ user_data.session_expired
        /\ call_in'.event \in {"preview", "clarify"})
          => ~user_data'.session_expired]_vars

(***************************************************************************)
(* The query answer                                                        *)
(***************************************************************************)
\* the positions of a trace at which a query answer goes out: alone, or
\* rendered into a preview
AnswersSent(tr) ==
    {i \in 1..Len(tr) :
        /\ tr[i][1] = "reply"
        /\ tr[i][2] \in {"answer", "preview"}
        /\ tr[i][3] # <<>>}

\* the answer was computed by the handler before it went out at position i:
\* the tasks of the query were fetched for it
ComputedBefore(tr, i) ==
    \E j \in 1..(i - 1) : tr[j][1] = "get_tasks_filtered"

\* C36: an answer that a handler sends or renders for a result is the one
\* computed from that result's own query intent: a text, a voice message
\* or a project choice sends only an answer it has computed itself, and a
\* confirm sends only the answer to the query of the pending result it
\* applies; so a result without a query intent has no answer sent.
C36_OwnAnswer ==
    [][\A i \in AnswersSent(trace') :
          /\ call_in'.event \in {"text", "voice", "clarify"}
                => ComputedBefore(trace', i)
          /\ call_in'.event = "preview"
                => /\ user_data.pending_result # NoResult
                   /\ extract_query_intent(user_data.pending_result) # NoIntent
                   /\ trace'[i][3]
                         = AnswerText(extract_query_intent(
                                         user_data.pending_result).question)]_vars

(***************************************************************************)
(* Confirm of one update whose target may be empty, over Stores of one to  *)
(* three active tasks (the cap on automatic matches is MaxAuto)            *)
(***************************************************************************)
\* the targets of the update: none, a title, blanks
BlankTargets == {<<>>, TextA, <<" ">>}

BlankChanges ==
    {[NoChanges EXCEPT !.status = "done"], [NoChanges EXCEPT !.title = TextZ],
     [NoChanges EXCEPT !.description = TextZ],
     [NoChanges EXCEPT !.priority = "high"]}

BlankResults ==
    {[EmptyResult EXCEPT !.tasks_updates = <<Update(target, changes)>>]
        : target \in BlankTargets, changes \in BlankChanges}

BlankStores == {<<E1>>, <<E1, B2>>, <<E1, B2, C3>>}

InitBlank ==
    /\ env \in [allowed : {0}, job_queue : {FALSE}, todoist : {TRUE},
                validator : {FALSE}, tz : {0}, dst : {FALSE}, today : {1},
                fuzzy : BOOLEAN, projects : {{}}]
    /\ user_data \in {[EmptyUserData EXCEPT !.pending_result = r,
                                            !.original_input = original]
                        : r \in BlankResults, original \in {TextQ, <<>>}}
    /\ jobs = {}
    /\ store \in {[tasks |-> snap, closed |-> <<>>, next_id |-> 4]
                    : snap \in BlankStores}
    /\ cache = [items |-> store.tasks, ts |-> Ttl, fresh |-> TRUE]
    /\ created_task_ids = <<>>
    /\ chat = [previews |-> 1, project_kb |-> FALSE]
    /\ now = Ttl
    /\ trace = <<>>
    /\ call_in = NoEvent
    /\ call_out = None

\* Confirm is pressed on the standing preview
BlankPress ==
    /\ chat.previews > 0
    /\ \E inp \in SendInputs :
          Commit(on_preview_callback(Machine, "confirm", inp),
                 Event("preview", "confirm"))

NextBlank ==
    \/ BlankPress

SpecBlank == InitBlank /\ [][NextBlank]_vars

\* the pending result is one update without a target text, and the
\* original input names no ID
EmptyTargetPending ==
    /\ user_data.pending_result # NoResult
    /\ user_data.pending_result.tasks_updates # <<>>
    /\ user_data.pending_result.tasks_updates[1].target = <<>>
    /\ id_from_url_or_text(user_data.original_input) = None

\* C37: the confirm of an update whose target text is empty, with no ID in
\* the fallback text, changes nothing in the Store.
C37_EmptyTargetNoMutation ==
    [][(ConfirmStep /\ EmptyTargetPending)
          => /\ store'.tasks = store.tasks
             /\ store'.closed = store.closed]_vars

(***************************************************************************)
(* A period of inactivity: the user sends events, then stops; from then on *)
(* only the job queue runs.  call_out notes whether the user has stopped   *)
(* and how many expiry notifications were sent since.                      *)
(***************************************************************************)
Live == [op |-> "live", val |-> 0]

Quiet == call_out.op = "quiet"

IdleResults == {EmptyResult, RNew}

IdleInputs ==
    [script : {StoreUp}, resps : {<<Resp("ok", r)>> : r \in IdleResults},
     vresp : {Resp("nodata", EmptyResult)}, ans : {TRUE}]

InitIdle ==
    /\ env \in [allowed : {0}, job_queue : {TRUE}, todoist : BOOLEAN,
                validator : {FALSE}, tz : {0}, dst : {FALSE}, today : {1},
                fuzzy : {FALSE}, projects : {{}}]
    /\ user_data = EmptyUserData
    /\ jobs = {}
    /\ cache = [items |-> <<>>, ts |-> 0, fresh |-> TRUE]
    /\ created_task_ids = <<>>
    /\ store = [tasks |-> <<E1>>, closed |-> <<>>, next_id |-> 2]
    /\ chat = [previews |-> 0, project_kb |-> FALSE]
    /\ now = Ttl
    /\ trace = <<>>
    /\ call_in = NoEvent
    /\ call_out = Live

IdleText ==
    /\ ~Quiet
    /\ CanTouch
    /\ \E text \in {TextA, TextB} : \E inp \in IdleInputs :
          Settle(handle_text(Machine, text, inp), Event("text", text), Live)

IdleVoice ==
    /\ ~Quiet
    /\ CanTouch
    /\ \E inp \in IdleInputs :
          Settle(handle_voice(Machine, TextA, inp), Event("voice", TextA), Live)

IdlePress ==
    /\ ~Quiet
    /\ CanTouch
    /\ CanCreate
    /\ chat.previews > 0
    /\ \E data \in {"confirm", "edit", "cancel"} : \E inp \in IdleInputs :
          Settle(on_preview_callback(Machine, data, inp),
                 Event("preview", data), Live)

\* the last event of the user has been handled and no other one follows
UserStops ==
    /\ ~Quiet
    /\ call_in.event \in {"text", "voice", "preview"}
    /\ call_out' = [op |-> "quiet", val |-> 0]
    /\ UNCHANGED <<env, user_data, jobs, cache, created_task_ids, store, chat,
                   now, trace, call_in>>

\* the job queue runs a pending _on_session_timeout
TimerFires ==
    \E j \in jobs :
        Settle(on_session_timeout(Machine, j), Event("timeout", <<>>),
               IF Quiet THEN [call_out EXCEPT !.val = @ + 1] ELSE Live)

NextIdle ==
    \/ IdleText
    \/ IdleVoice
    \/ IdlePress
    \/ UserStops
    \/ TimerFires

\* the job queue runs every job that stays pending
SpecIdle == InitIdle /\ [][NextIdle]_vars /\ WF_vars(TimerFires)

\* every pending callback of the period has run, the session is expired and
\* one notification was sent
ExpiredOnce ==
    /\ Quiet
    /\ jobs = {}
    /\ user_data.session_expired
    /\ call_out.val = 1

\* C38: when the user stops after an event, with the job queue available
\* and the timer run fairly, the session is eventually expired with exactly
\* one expiry notification sent for that period of inactivity.
C38_IdleExpiresOnce == Quiet ~> ExpiredOnce

(***************************************************************************)
(* One deadline converted twice: with force_local set and unset, and       *)
(* previewed under two original inputs                                     *)
(***************************************************************************)
TwoRunCalls ==
    [x : NaiveTexts \cup ZonedTexts \cup BadTexts \cup BlankTexts,
     original : OriginalTexts, other : OriginalTexts]

InitTwoRuns ==
    /\ env \in [allowed : {0}, job_queue : {FALSE}, todoist : {TRUE},
                validator : {FALSE}, tz : {-1, 0, 1}, dst : BOOLEAN,
                today : {1}, fuzzy : {FALSE}, projects : {{}}]
    /\ call_in \in TwoRunCalls
    /\ user_data = EmptyUserData
    /\ jobs = {}
    /\ cache = [items |-> <<>>, ts |-> 0, fresh |-> TRUE]
    /\ store = [tasks |-> <<>>, closed |-> <<>>, next_id |-> 1]
    /\ created_task_ids = <<>>
    /\ chat = [previews |-> 0, project_kb |-> FALSE]
    /\ now = Ttl
    /\ trace = <<>>
    /\ call_out = NoCall

\* _to_local_with_offset(x, force_local=True) and (x, force_local=False)
CallSentBothWays ==
    /\ call_out.op = "none"
    /\ Returned("sent_both_ways",
                [forced |-> to_local_with_offset(call_in.x, TRUE),
                 plain |-> to_local_with_offset(call_in.x, FALSE)])

\* _format_local_wall(x) under one original input and under another
CallShownForBoth ==
    /\ call_out.op = "none"
    /\ Returned("shown_for_both",
                [one |-> format_local_wall(call_in.x, call_in.original),
                 two |-> format_local_wall(call_in.x, call_in.other)])

NextTwoRuns ==
    \/ CallSentBothWays
    \/ CallShownForBoth

SpecTwoRuns == InitTwoRuns /\ [][NextTwoRuns]_vars

\* C39: the due value to_local_with_offset gives for a datetime text is the
\* same with force_local set and unset, and the clock reading the preview
\* shows is the same under original inputs for which the heuristic differs.
C39_ForceLocalIgnored ==
    /\ call_out.op = "sent_both_ways" =>
            call_out.val.forced = call_out.val.plain
    /\ call_out.op = "shown_for_both" =>
            call_out.val.one = call_out.val.two

\* 09:00 UTC becomes 10:00+1 one hour east of UTC, forced or not
C39_Witness ==
    /\ call_out.op = "sent_both_ways"
    /\ env.tz = 1
    /\ ~env.dst
    /\ call_in.x = <<"@", "1", "T", "0", "9", "Z">>
    /\ call_out.val.forced = <<"@", "1", "T", "1", "0", "+", "1">>
    /\ call_out.val.plain = <<"@", "1", "T", "1", "0", "+", "1">>

====
